---- MODULE Spec2Model ----
(***************************************************************************)
(* A model of the ELF64 tools of libmeminfo (tools/elftool): the in-memory *)
(* Elf64Binary, the parser, Elf64Writer, AlignProgramHeaders and           *)
(* Elf64Comparator.                                                        *)
(*                                                                         *)
(* Files are sequences of bytes.  Header structures are written and read   *)
(* as their little-endian memory images with the field offsets of          *)
(* <elf.h>.  The 64-bit unsigned fields of the code are modelled as        *)
(* WordBits-bit unsigned words (TLC's integers are 32 bits wide): every    *)
(* sum and difference of the code is taken modulo Word = 2^WordBits, so    *)
(* wrap-around happens in the model exactly where it happens in the code,  *)
(* at a smaller modulus.                                                   *)
(***************************************************************************)
EXTENDS Integers, Sequences, FiniteSets, TLC

(***************************************************************************)
(* Bounds of the model.                                                    *)
(***************************************************************************)
\* Width in bits of the words standing for uint64_t.
WordBits == 18
\* Largest number of program headers of an enumerated header vector.
MaxPhdrs == 2
\* Largest number of successive AlignProgramHeaders calls on one model.
MaxAlignCalls == 2
\* Largest number of section headers of an enumerated input file (the null
\* section included).
MaxSections == 3
\* Largest number of AlignProgramHeaders calls between parsing and writing a file.
MaxFileAligns == 1
\* Largest number of program-header fields in which a copy may differ.
MaxDiffs == 2
MaxSymlinks == 2
MaxProcs == 2
MaxSwapPages == 1
CountBits == 2
MaxCpus == 2
MaxRing == 2
MaxEvents == 3

(***************************************************************************)
(* Program constants (<elf.h>), named at the source line that uses them.   *)
(***************************************************************************)
PT_LOAD == 1
PT_TLS == 7

(***************************************************************************)
(* Unsigned machine arithmetic.                                            *)
(***************************************************************************)
RECURSIVE Pow2(_)
Pow2(n) == IF n = 0 THEN 1 ELSE 2 * Pow2(n - 1)

Word == Pow2(WordBits)

\* a + b and a - b in unsigned arithmetic of WordBits bits.
Add(a, b) == (a + b) % Word
Sub(a, b) == (a - b + Word) % Word

\* a & b
RECURSIVE BitAnd(_, _)
BitAnd(a, b) ==
    IF a = 0 \/ b = 0 THEN 0
    ELSE (a % 2) * (b % 2) + 2 * BitAnd(a \div 2, b \div 2)

\* ~a
BitNot(a) == Word - 1 - a

IsPowerOfTwo(a) == \E k \in 0..(WordBits - 1) : a = Pow2(k)

(***************************************************************************)
(* Memory images of the header structures (<elf.h>): little-endian fields  *)
(* at their offsets.  Elf64Writer writes sizeof(struct) bytes of the       *)
(* object; the parser reads the same number of bytes back into it.         *)
(***************************************************************************)
SizeofEhdr == 64
SizeofPhdr == 56
SizeofShdr == 64
EI_NIDENT == 16
\* Index of the class byte in e_ident, and the class of a 64-bit object.
EI_CLASS == 4
ELFCLASS64 == 2
ELFCLASS32 == 1
SHT_PROGBITS == 1
SHT_NOBITS == 8
PF_X == 1
PF_W == 2
PF_R == 4
PS_4K == 4096
PS_16K == 16384
PS_64K == 65536

\* The n bytes of the unsigned value v, least significant first.
RECURSIVE LE(_, _)
LE(v, n) == IF n = 0 THEN << >> ELSE << v % 256 >> \o LE(v \div 256, n - 1)

\* The unsigned value of the bytes b, least significant first.
RECURSIVE FromLE(_)
FromLE(b) == IF b = << >> THEN 0 ELSE Head(b) + 256 * FromLE(Tail(b))

\* The n bytes at offset off of the byte sequence b (offsets count from 0).
Bytes(b, off, n) == SubSeq(b, off + 1, off + n)
Field(b, off, n) == FromLE(Bytes(b, off, n))

\* n zero bytes.
Zeros(n) == [k \in 1..n |-> 0]

EncodeEhdr(e) ==
    e.e_ident \o LE(e.e_type, 2) \o LE(e.e_machine, 2) \o LE(e.e_version, 4)
    \o LE(e.e_entry, 8) \o LE(e.e_phoff, 8) \o LE(e.e_shoff, 8) \o LE(e.e_flags, 4)
    \o LE(e.e_ehsize, 2) \o LE(e.e_phentsize, 2) \o LE(e.e_phnum, 2)
    \o LE(e.e_shentsize, 2) \o LE(e.e_shnum, 2) \o LE(e.e_shstrndx, 2)

EncodePhdr(p) ==
    LE(p.p_type, 4) \o LE(p.p_flags, 4) \o LE(p.p_offset, 8) \o LE(p.p_vaddr, 8)
    \o LE(p.p_paddr, 8) \o LE(p.p_filesz, 8) \o LE(p.p_memsz, 8) \o LE(p.p_align, 8)

EncodeShdr(s) ==
    LE(s.sh_name, 4) \o LE(s.sh_type, 4) \o LE(s.sh_flags, 8) \o LE(s.sh_addr, 8)
    \o LE(s.sh_offset, 8) \o LE(s.sh_size, 8) \o LE(s.sh_link, 4) \o LE(s.sh_info, 4)
    \o LE(s.sh_addralign, 8) \o LE(s.sh_entsize, 8)

DecodeEhdr(b) ==
    [e_ident |-> Bytes(b, 0, EI_NIDENT),
     e_type |-> Field(b, 16, 2), e_machine |-> Field(b, 18, 2),
     e_version |-> Field(b, 20, 4), e_entry |-> Field(b, 24, 8),
     e_phoff |-> Field(b, 32, 8), e_shoff |-> Field(b, 40, 8),
     e_flags |-> Field(b, 48, 4), e_ehsize |-> Field(b, 52, 2),
     e_phentsize |-> Field(b, 54, 2), e_phnum |-> Field(b, 56, 2),
     e_shentsize |-> Field(b, 58, 2), e_shnum |-> Field(b, 60, 2),
     e_shstrndx |-> Field(b, 62, 2)]

DecodePhdr(b) ==
    [p_type |-> Field(b, 0, 4), p_flags |-> Field(b, 4, 4),
     p_offset |-> Field(b, 8, 8), p_vaddr |-> Field(b, 16, 8),
     p_paddr |-> Field(b, 24, 8), p_filesz |-> Field(b, 32, 8),
     p_memsz |-> Field(b, 40, 8), p_align |-> Field(b, 48, 8)]

DecodeShdr(b) ==
    [sh_name |-> Field(b, 0, 4), sh_type |-> Field(b, 4, 4),
     sh_flags |-> Field(b, 8, 8), sh_addr |-> Field(b, 16, 8),
     sh_offset |-> Field(b, 24, 8), sh_size |-> Field(b, 32, 8),
     sh_link |-> Field(b, 40, 4), sh_info |-> Field(b, 44, 4),
     sh_addralign |-> Field(b, 48, 8), sh_entsize |-> Field(b, 56, 8)]

(***************************************************************************)
(* The parser (Elf64Parser; its source is not part of the tree, so it is   *)
(* modelled from its specification): the executable header at offset 0,    *)
(* e_phnum program headers from e_phoff, e_shnum section headers from      *)
(* e_shoff, and for every section header sh_size bytes from sh_offset,     *)
(* unless the type is SHT_NOBITS: then no bytes are read, the data pointer *)
(* stays NULL and the stored size is still sh_size.  Section names are not *)
(* modelled.                                                               *)
(***************************************************************************)
\* The fatal parse errors: a truncated header region, a class other than 64-bit.
ParseError(f) ==
    IF Len(f) < SizeofEhdr THEN TRUE
    ELSE LET e == DecodeEhdr(Bytes(f, 0, SizeofEhdr))
         IN  \/ e.e_ident[EI_CLASS + 1] # ELFCLASS64
             \/ e.e_phnum > 0 /\ e.e_phoff + e.e_phnum * SizeofPhdr > Len(f)
             \/ e.e_shnum > 0 /\ e.e_shoff + e.e_shnum * SizeofShdr > Len(f)

ParseSection(f, shdr) ==
    [size |-> shdr.sh_size,
     null |-> shdr.sh_type = SHT_NOBITS,
     data |-> IF shdr.sh_type = SHT_NOBITS THEN << >>
              ELSE Bytes(f, shdr.sh_offset, shdr.sh_size)]

ParseElfFile(f) ==
    LET e == DecodeEhdr(Bytes(f, 0, SizeofEhdr))
        ph == [i \in 1..e.e_phnum |->
                 DecodePhdr(Bytes(f, e.e_phoff + (i - 1) * SizeofPhdr, SizeofPhdr))]
        sh == [i \in 1..e.e_shnum |->
                 DecodeShdr(Bytes(f, e.e_shoff + (i - 1) * SizeofShdr, SizeofShdr))]
    IN  [ehdr |-> e, phdrs |-> ph, shdrs |-> sh,
         sections |-> [i \in 1..e.e_shnum |-> ParseSection(f, sh[i])]]

\* The model before anything is parsed into it (Elf64Binary's constructor).
EmptyBinary ==
    [ehdr |-> DecodeEhdr(Zeros(SizeofEhdr)), phdrs |-> << >>, shdrs |-> << >>,
     sections |-> << >>]

(***************************************************************************)
(* The input files.  Each is a well-formed little-endian ELF64 file built  *)
(* from a layout: the executable header, the program headers, gap0 bytes,  *)
(* the contents of sections 1.. (each followed by `gap` bytes before the   *)
(* next part), and the section header table after them (table = "last"),   *)
(* before them (table = "first") or left out (table = "none": e_shnum = 0).*)
(* A SHT_NOBITS section holds no bytes of the file.                        *)
(***************************************************************************)
LoadSegment ==
    [p_type |-> PT_LOAD, p_flags |-> 5, p_offset |-> 0, p_vaddr |-> 0, p_paddr |-> 0,
     p_filesz |-> 100, p_memsz |-> 67834, p_align |-> 65536]
TlsSegment ==
    [p_type |-> PT_TLS, p_flags |-> 4, p_offset |-> 64, p_vaddr |-> 65600,
     p_paddr |-> 65600, p_filesz |-> 9, p_memsz |-> 12, p_align |-> 8]
FilePhdrs == { << >>, << LoadSegment >>, << LoadSegment, TlsSegment >> }

SectionKinds ==
    { [type |-> SHT_PROGBITS, size |-> 2, gap |-> 0],
      [type |-> SHT_PROGBITS, size |-> 1, gap |-> 3],
      [type |-> SHT_NOBITS, size |-> 4, gap |-> 0],
      [type |-> SHT_NOBITS, size |-> 4, gap |-> 2] }

SeqsUpTo(S, n) == UNION { [1..k -> S] : k \in 0..n }

Layouts ==
    [phdrs : FilePhdrs, gap0 : {0, 8}, table : {"last"},
     secs : SeqsUpTo(SectionKinds, MaxSections - 1)]
    \cup [phdrs : FilePhdrs, gap0 : {0}, table : {"none"}, secs : { << >> }]
    \cup [phdrs : FilePhdrs, gap0 : {0}, table : {"first"},
          secs : { << [type |-> SHT_PROGBITS, size |-> 2, gap |-> 0] >> }]

\* The bytes a section kind takes in the file, and its m-th content byte.
FileExtent(kind) == (IF kind.type = SHT_NOBITS THEN 0 ELSE kind.size) + kind.gap
SectionData(j, size) == [m \in 1..size |-> 16 * j + m]

RECURSIVE ExtentSum(_, _)
ExtentSum(secs, j) ==
    IF j = 0 THEN 0 ELSE ExtentSum(secs, j - 1) + FileExtent(secs[j])

RECURSIVE ContentBytes(_, _)
ContentBytes(secs, j) ==
    IF j = 0 THEN << >>
    ELSE ContentBytes(secs, j - 1)
         \o (IF secs[j].type = SHT_NOBITS THEN << >> ELSE SectionData(j, secs[j].size))
         \o Zeros(secs[j].gap)

NumSections(l) == IF l.table = "none" THEN 0 ELSE 1 + Len(l.secs)
HeadersEnd(l) == SizeofEhdr + SizeofPhdr * Len(l.phdrs)
ContentStart(l) ==
    HeadersEnd(l) + l.gap0
    + (IF l.table = "first" THEN SizeofShdr * NumSections(l) ELSE 0)
TableOffset(l) ==
    CASE l.table = "none" -> 0
      [] l.table = "first" -> HeadersEnd(l)
      [] l.table = "last" -> ContentStart(l) + ExtentSum(l.secs, Len(l.secs))

LayoutEhdr(l) ==
    [e_ident |-> << 127, 69, 76, 70, ELFCLASS64, 1, 1 >> \o Zeros(9),
     e_type |-> 3, e_machine |-> 183, e_version |-> 1, e_entry |-> 0,
     e_phoff |-> IF Len(l.phdrs) = 0 THEN 0 ELSE SizeofEhdr,
     e_shoff |-> TableOffset(l), e_flags |-> 0, e_ehsize |-> SizeofEhdr,
     e_phentsize |-> SizeofPhdr, e_phnum |-> Len(l.phdrs),
     e_shentsize |-> SizeofShdr, e_shnum |-> NumSections(l), e_shstrndx |-> 0]

\* The header of section i (0 is the null section).
LayoutShdr(l, i) ==
    IF i = 0 THEN DecodeShdr(Zeros(SizeofShdr))
    ELSE [sh_name |-> i, sh_type |-> l.secs[i].type, sh_flags |-> 2, sh_addr |-> 0,
          sh_offset |-> ContentStart(l) + ExtentSum(l.secs, i - 1),
          sh_size |-> l.secs[i].size, sh_link |-> 0, sh_info |-> 0,
          sh_addralign |-> 1, sh_entsize |-> 0]

RECURSIVE Concat(_, _)
Concat(f, n) == IF n = 0 THEN << >> ELSE Concat(f, n - 1) \o f[n]

LayoutFile(l) ==
    LET phdrBytes == Concat([i \in 1..Len(l.phdrs) |-> EncodePhdr(l.phdrs[i])],
                            Len(l.phdrs))
        shdrBytes == Concat([i \in 1..NumSections(l) |-> EncodeShdr(LayoutShdr(l, i - 1))],
                            NumSections(l))
        content == ContentBytes(l.secs, Len(l.secs))
    IN  EncodeEhdr(LayoutEhdr(l)) \o phdrBytes
        \o (IF l.table = "first" THEN shdrBytes ELSE << >>)
        \o Zeros(l.gap0) \o content
        \o (IF l.table = "last" THEN shdrBytes ELSE << >>)

\* Files the parser refuses: a 32-bit object, and a file cut short inside its
\* section header table.
Ehdr32(l) == [LayoutEhdr(l) EXCEPT !.e_ident[EI_CLASS + 1] = ELFCLASS32]
RefusedFiles ==
    LET l == [phdrs |-> << LoadSegment >>, gap0 |-> 0, table |-> "last",
              secs |-> << [type |-> SHT_PROGBITS, size |-> 2, gap |-> 0] >>]
        f == LayoutFile(l)
    IN  { EncodeEhdr(Ehdr32(l)) \o SubSeq(f, SizeofEhdr + 1, Len(f)),
          SubSeq(f, 1, Len(f) - 1) }

InputFiles == { LayoutFile(l) : l \in Layouts } \cup RefusedFiles

(***************************************************************************)
(* The aligner (elf64-max-pgsize-align.cpp).                               *)
(***************************************************************************)
\* Faulty roundings: rounding down, and rounding past an aligned value.
AlignUpDown(size, align) == BitAnd(size, BitNot(Sub(align, 1)))
AlignUpPast(size, align) == BitAnd(Add(size, align), BitNot(Sub(align, 1)))

\* (size + align - 1) & ~(align - 1)
AlignUp(size, align) ==
    BitAnd(Sub(Add(size, align), 1), BitNot(Sub(align, 1)))

\* A faulty loop body that rounds p_offset as well.
AlignPhdrOffsetToo(p) ==
    [p EXCEPT !.p_filesz = AlignUp(p.p_filesz, p.p_align),
              !.p_memsz = AlignUp(p.p_memsz, p.p_align),
              !.p_offset = AlignUp(p.p_offset, p.p_align)]

\* The body of the loop: both assignments stand outside the PT_LOAD test,
\* which only guards the printing.
AlignPhdr(p) ==
    [p EXCEPT !.p_filesz = AlignUp(p.p_filesz, p.p_align),
              !.p_memsz = AlignUp(p.p_memsz, p.p_align)]

\* A faulty loop that keeps the PT_LOAD headers only.
AlignedPhdrsLoadOnly(phdrs) ==
    LET loads == SelectSeq(phdrs, LAMBDA p : p.p_type = PT_LOAD)
    IN  [i \in 1..Len(loads) |-> AlignPhdr(loads[i])]

\* The vector after the loop over all its elements.
AlignedPhdrs(phdrs) == [i \in 1..Len(phdrs) |-> AlignPhdr(phdrs[i])]

(***************************************************************************)
(* The writer (Elf64Writer).                                               *)
(***************************************************************************)
\* calloc(1, size) returns NULL for a size no allocation can have.
CallocFails(size) == size > Word \div 2 - 1

\* What the process can do when ostream::write is handed a NULL buffer and a
\* nonzero size (undefined behaviour): it is killed by the fault of the
\* copy, or the write system call refuses the buffer, the stream goes bad
\* and Write exits.
NullWriteOutcomes == {"segv", "exit"}
\* What the process can do when it reads past the end of a vector.
OutOfRangeOutcomes == {"segv"}

\* Write(elfFile, data, size) of a section's buffer, on the output o.
\* fault tells whether the stream fails this write.
WriteBuffer(o, sec, fault) ==
    IF sec.null /\ sec.size > 0 THEN [out |-> o, st |-> "nullwrite"]
    ELSE IF fault THEN [out |-> o, st |-> "exit"]
    ELSE [out |-> o \o Bytes(sec.data, 0, sec.size), st |-> "ok"]

\* WritePadding(elfFile, size): a calloc'ed buffer of zeros is written; when
\* calloc fails, the message is printed and the NULL buffer is written.
WritePadding(o, size, fault) ==
    IF CallocFails(size) /\ size > 0 THEN [out |-> o, st |-> "nullwrite"]
    ELSE IF fault THEN [out |-> o, st |-> "exit"]
    ELSE [out |-> o \o Zeros(size), st |-> "ok"]

\* padding = next offset - (sh_offset + sh_size), in uint64_t.
Padding(shdr, nextOffset) == Sub(nextOffset, Add(shdr.sh_offset, shdr.sh_size))

\* The content of a section and the padding after it: the two writes of an
\* iteration of WriteSections, and of WriteLastSection.  fault names the write
\* the stream fails (0: none).
WriteSectionAndPadding(o, shdr, sec, nextOffset, fault) ==
    LET w == WriteBuffer(o, sec, fault = 1)
    IN  IF w.st # "ok" THEN w
        ELSE WritePadding(w.out, Padding(shdr, nextOffset), fault = 2)

(***************************************************************************)
(* The comparator (Elf64Comparator).  A comparison yields its verdict and  *)
(* the differences it prints, in the order it prints them.                 *)
(***************************************************************************)
\* A faulty field list that leaves p_align out.
PhdrFieldsNoAlign ==
    << "p_type", "p_flags", "p_offset", "p_vaddr", "p_paddr", "p_filesz", "p_memsz" >>

\* The fields ArePhdrsEqual compares, in its order.
PhdrFields ==
    << "p_type", "p_flags", "p_offset", "p_vaddr", "p_paddr", "p_filesz", "p_memsz",
       "p_align" >>

\* The differences printed for the pair of headers at index i.
PhdrDiffs(p1, p2, i) ==
    LET differing == SelectSeq(PhdrFields, LAMBDA f : p1[f] # p2[f])
    IN  [k \in 1..Len(differing) |-> [index |-> i, field |-> differing[k]]]

RECURSIVE PhdrsDiffs(_, _, _)
PhdrsDiffs(phdrs1, phdrs2, n) ==
    IF n = 0 THEN << >>
    ELSE PhdrsDiffs(phdrs1, phdrs2, n - 1) \o PhdrDiffs(phdrs1[n], phdrs2[n], n - 1)

ArePhdrsEqual(phdrs1, phdrs2) ==
    IF Len(phdrs1) # Len(phdrs2)
    THEN [equal |-> FALSE, report |-> << [index |-> -1, field |-> "size"] >>]
    ELSE LET d == PhdrsDiffs(phdrs1, phdrs2, Len(phdrs1))
         IN  [equal |-> d = << >>, report |-> d]

\* The fields AreEhdrsEqual compares after the identification bytes, in its
\* order.
EhdrFields ==
    << "e_type", "e_machine", "e_version", "e_entry", "e_phoff", "e_shoff",
       "e_flags", "e_ehsize", "e_phentsize", "e_phnum", "e_shentsize", "e_shnum",
       "e_shstrndx" >>

\* The identification bytes printed as different (i counts from 0).
IdentDiffs(e1, e2) ==
    LET differing == SelectSeq([k \in 1..EI_NIDENT |-> k - 1],
                               LAMBDA i : e1.e_ident[i + 1] # e2.e_ident[i + 1])
    IN  [k \in 1..Len(differing) |-> [index |-> differing[k], field |-> "e_ident"]]

AreEhdrsEqual(e1, e2) ==
    LET differing == SelectSeq(EhdrFields, LAMBDA f : e1[f] # e2[f])
        d == IdentDiffs(e1, e2)
             \o [k \in 1..Len(differing) |-> [index |-> 0, field |-> differing[k]]]
    IN  [equal |-> d = << >>, report |-> d]

\* A faulty field list that leaves sh_entsize out.
ShdrFieldsNoEntsize ==
    << "sh_name", "sh_type", "sh_flags", "sh_addr", "sh_offset", "sh_size",
       "sh_link", "sh_info", "sh_addralign" >>

\* The fields AreShdrsEqual compares, in its order.
ShdrFields ==
    << "sh_name", "sh_type", "sh_flags", "sh_addr", "sh_offset", "sh_size",
       "sh_link", "sh_info", "sh_addralign", "sh_entsize" >>

ShdrDiffs(s1, s2, i) ==
    LET differing == SelectSeq(ShdrFields, LAMBDA f : s1[f] # s2[f])
    IN  [k \in 1..Len(differing) |-> [index |-> i, field |-> differing[k]]]

RECURSIVE ShdrsDiffs(_, _, _)
ShdrsDiffs(shdrs1, shdrs2, n) ==
    IF n = 0 THEN << >>
    ELSE ShdrsDiffs(shdrs1, shdrs2, n - 1) \o ShdrDiffs(shdrs1[n], shdrs2[n], n - 1)

AreShdrsEqual(shdrs1, shdrs2) ==
    IF Len(shdrs1) # Len(shdrs2)
    THEN [equal |-> FALSE, report |-> << [index |-> -1, field |-> "size"] >>]
    ELSE LET d == ShdrsDiffs(shdrs1, shdrs2, Len(shdrs1))
         IN  [equal |-> d = << >>, report |-> d]

\* memcmp(data1, data2, size) # 0.
Memcmp(data1, data2, size) == Bytes(data1, 0, size) # Bytes(data2, 0, size)

\* A faulty decision that takes a pair with one buffer absent for equal.
SdPairOneAbsentEqual(s1, s2, i) ==
    IF s1.size # s2.size
    THEN [differs |-> TRUE, report |-> << [index |-> i, field |-> "size"] >>]
    ELSE IF s1.null \/ s2.null
    THEN [differs |-> FALSE, report |-> << >>]
    ELSE IF Memcmp(s1.data, s2.data, s1.size)
    THEN [differs |-> TRUE, report |-> << [index |-> i, field |-> "data"] >>]
    ELSE [differs |-> FALSE, report |-> << >>]

\* A faulty decision that takes a pair with both buffers absent for different.
SdPairAbsentDiffers(s1, s2, i) ==
    IF s1.size # s2.size
    THEN [differs |-> TRUE, report |-> << [index |-> i, field |-> "size"] >>]
    ELSE IF s1.null \/ s2.null
    THEN [differs |-> TRUE, report |-> << >>]
    ELSE IF Memcmp(s1.data, s2.data, s1.size)
    THEN [differs |-> TRUE, report |-> << [index |-> i, field |-> "data"] >>]
    ELSE [differs |-> FALSE, report |-> << >>]

\* One iteration of the loop of AreSdEqual: whether the pair of sections at
\* index i sets equal to false, and what is printed for it.
SdPair(s1, s2, i) ==
    IF s1.size # s2.size
    THEN [differs |-> TRUE, report |-> << [index |-> i, field |-> "size"] >>]
    ELSE IF s1.null /\ s2.null
    THEN [differs |-> FALSE, report |-> << >>]
    ELSE IF s1.null \/ s2.null
    THEN [differs |-> TRUE, report |-> << >>]
    ELSE IF Memcmp(s1.data, s2.data, s1.size)
    THEN [differs |-> TRUE, report |-> << [index |-> i, field |-> "data"] >>]
    ELSE [differs |-> FALSE, report |-> << >>]

RECURSIVE SdPairs(_, _, _)
SdPairs(sections1, sections2, n) ==
    IF n = 0 THEN [differs |-> FALSE, report |-> << >>]
    ELSE LET before == SdPairs(sections1, sections2, n - 1)
             this == SdPair(sections1[n], sections2[n], n - 1)
         IN  [differs |-> before.differs \/ this.differs,
              report |-> before.report \o this.report]

AreSdEqual(sections1, sections2) ==
    IF Len(sections1) # Len(sections2)
    THEN [equal |-> FALSE, report |-> << [index |-> -1, field |-> "size"] >>]
    ELSE LET d == SdPairs(sections1, sections2, Len(sections1))
         IN  [equal |-> ~d.differs, report |-> d.report]

(***************************************************************************)
(* The fragmentation analyzer (Elf64Fragmentation, the variant that keeps  *)
(* SegmentStats per permission class).                                     *)
(***************************************************************************)
\* A faulty page count that leaves the partial page out.
calculateNumPagesFloor(memSize, pageSize) == memSize \div pageSize

calculateFrag(memSize, pageSize) == Sub(pageSize, memSize % pageSize)

calculateNumPages(memSize, pageSize) ==
    Add(memSize \div pageSize, IF memSize % pageSize = 0 THEN 0 ELSE 1)

\* The classification helpers of Elf64Binary (elf64-binary.h is not part of
\* the tree; they are modelled from the specification): a segment that can be
\* executed, one that can only be read, one that can be read and written.
IsExecSegment(p_flags) == BitAnd(p_flags, PF_X) # 0
IsReadOnlySegment(p_flags) == p_flags = PF_R
IsReadWriteSegment(p_flags) == p_flags = PF_R + PF_W

\* The totals hold the counters of SegmentStats (their p_flags is not used).
UpdateTotalSegmentStats(totalSegStats, segStats) ==
    [f \in DOMAIN totalSegStats |-> Add(totalSegStats[f], segStats[f])]

\* A faulty SegmentStats with the page counts of 4k and 64k pages exchanged.
SegStatsSwapped(phdr) ==
    [p_flags |-> phdr.p_flags,
     numSegments |-> 1,
     memSize |-> phdr.p_memsz,
     num4kPages |-> calculateNumPages(phdr.p_memsz, PS_64K),
     num16kPages |-> calculateNumPages(phdr.p_memsz, PS_16K),
     num64kPages |-> calculateNumPages(phdr.p_memsz, PS_4K),
     frag4kInBytes |-> calculateFrag(phdr.p_memsz, PS_4K),
     frag16kInBytes |-> calculateFrag(phdr.p_memsz, PS_16K),
     frag64kInBytes |-> calculateFrag(phdr.p_memsz, PS_64K)]

\* The segStats PopulateSegmentStats fills in for a program header.
SegStats(phdr) ==
    [p_flags |-> phdr.p_flags,
     numSegments |-> 1,
     memSize |-> phdr.p_memsz,
     num4kPages |-> calculateNumPages(phdr.p_memsz, PS_4K),
     num16kPages |-> calculateNumPages(phdr.p_memsz, PS_16K),
     num64kPages |-> calculateNumPages(phdr.p_memsz, PS_64K),
     frag4kInBytes |-> calculateFrag(phdr.p_memsz, PS_4K),
     frag16kInBytes |-> calculateFrag(phdr.p_memsz, PS_16K),
     frag64kInBytes |-> calculateFrag(phdr.p_memsz, PS_64K)]

\* The totals after PopulateSegmentStats has added segStats to the total of
\* its class: the first of the three tests that holds picks the total.
PopulateSegmentStats(tot, segStats) ==
    LET sum(t) == UpdateTotalSegmentStats(t, segStats)
    IN  IF IsExecSegment(segStats.p_flags)
        THEN [tot EXCEPT !.exec = sum(@)]
        ELSE IF IsReadOnlySegment(segStats.p_flags)
        THEN [tot EXCEPT !.readOnly = sum(@)]
        ELSE IF IsReadWriteSegment(segStats.p_flags)
        THEN [tot EXCEPT !.readWrite = sum(@)]
        ELSE tot

\* CalculateFragmentation(elf64Binary) over the first n program headers: the
\* totals, the stats printed, and the sum of the stats of the PT_LOAD
\* segments met.
RECURSIVE CalculateFragmentation(_, _, _, _)
CalculateFragmentation(phdrs, n, tot, loads) ==
    IF n = 0 THEN [totals |-> tot, printed |-> << >>, loads |-> loads]
    ELSE LET before == CalculateFragmentation(phdrs, n - 1, tot, loads)
         IN  IF phdrs[n].p_type = PT_LOAD
             THEN LET segStats == SegStats(phdrs[n])
                  IN  [totals |-> PopulateSegmentStats(before.totals, segStats),
                       printed |-> Append(before.printed, segStats),
                       loads |-> UpdateTotalSegmentStats(before.loads, segStats)]
             ELSE before

\* CalculateFragmentation(elf64Binary) of the totals-only analyzer over the
\* first n program headers: every PT_LOAD segment adds its unused bytes at
\* each page size to the three totals.
RECURSIVE TotalFragmentation(_, _, _)
TotalFragmentation(phdrs, n, tot) ==
    IF n = 0 THEN tot
    ELSE LET before == TotalFragmentation(phdrs, n - 1, tot)
             memsz == phdrs[n].p_memsz
         IN  IF phdrs[n].p_type = PT_LOAD
             THEN [frag4k |-> Add(before.frag4k, Sub(PS_4K, memsz % PS_4K)),
                   frag16k |-> Add(before.frag16k, Sub(PS_16K, memsz % PS_16K)),
                   frag64k |-> Add(before.frag64k, Sub(PS_64K, memsz % PS_64K))]
             ELSE before

\* Utils::EndsWith(path, suffix), on strings as sequences of characters.
EndsWith(path, suffix) ==
    /\ Len(suffix) <= Len(path)
    /\ SubSeq(path, Len(path) - Len(suffix) + 1, Len(path)) = suffix

\* Elf64Parser::ParseExecutableHeader (modelled from the specification): the
\* executable header alone; a file too short to hold it is a fatal error.
HeaderParseError(f) == Len(f) < SizeofEhdr
ParseExecutableHeader(f) == [EmptyBinary EXCEPT !.ehdr = DecodeEhdr(Bytes(f, 0, SizeofEhdr))]

\* A faulty class test that takes every class.
IsAnyClass(ehdr) == TRUE

\* elf64Binary.ehdr.e_ident[EI_CLASS] == ELFCLASS64.
IsElf64(ehdr) == ehdr.e_ident[EI_CLASS + 1] = ELFCLASS64

(***************************************************************************)
(* The state.                                                              *)
(***************************************************************************)
VARIABLES
    input,       \* the bytes of the input file
    pc,          \* where the process is
    bin,         \* the Elf64Binary
    prevPhdrs,   \* bin.phdrs as they were before the latest AlignProgramHeaders
    alignCalls,  \* the number of AlignProgramHeaders calls so far
    out,         \* the bytes written to the output file that is open
    wi,          \* the index i of the writer's loop
    wlog,        \* the section buffers handed to Write for the open output
    outs,        \* the output files completed, by alignCalls at the time
    bin2,        \* the second Elf64Binary of a comparison
    cmp,         \* the result of the comparison
    input2,      \* the bytes of the second file of elftool
    diff,        \* the comparisons elftool has made, in their order
    tree,        \* the directory tree the fragmentation analyzer walks
    stack,       \* the calls of ProcessDir that are active, the innermost last
    totals,      \* totalExecStats, totalReadOnlyStats, totalReadWriteStats
    cur,         \* the directory entry whose file the analyzer is looking at
    processedFiles,  \* Elf64Fragmentation::processedFiles
    printed,     \* the SegmentStats printed for the file analyzed last
    analyzed,    \* how many times each file of the tree has been analyzed
    loadStats,   \* the sum of the SegmentStats of all PT_LOAD segments processed
    elfFile,     \* the std::ofstream of WriteElfFile: is_open() and good()
    totalFrag,   \* totalFrag4k, totalFrag16k, totalFrag64k of the totals-only analyzer
    pids,        \* run_procrank: the number of pids still to be read
    params,      \* procrank::params (show_wss, swap_enabled, total_pswap)
    pi,          \* run_procrank: the index of the record add_to_totals is at
    swap_offset_array,  \* run_procrank: the reference count of each swap offset
    procs,       \* run_procrank: the ProcessRecords kept by populate_procs
    swapReads,   \* the reads of swap_offset_array made by CalculateSwap
    handlers,    \* the running invocations of the tracepoint programs
    rings,       \* the records of the ring buffers ams_rb and lmkd_rb
    events       \* the number of tracepoint events so far

diffVars == << input2, diff >>
fragVars == << tree, stack, totals, cur, processedFiles, printed, analyzed, loadStats >>
procVars == << pids, params, pi, swap_offset_array, procs, swapReads >>
bpfVars == << handlers, rings, events >>
restVars == << totalFrag, procVars, bpfVars >>
extVars == << elfFile, restVars >>
vars == << input, pc, bin, prevPhdrs, alignCalls, out, wi, wlog, outs, bin2, cmp,
           diffVars, fragVars, extVars >>

NoFile == [written |-> FALSE, bytes |-> << >>]
NoCmp == [equal |-> TRUE, report |-> << >>]

\* A SegmentStats whose counters are zero (the totals at construction).
ZeroStats ==
    [numSegments |-> 0, memSize |-> 0, num4kPages |-> 0, num16kPages |-> 0,
     num64kPages |-> 0, frag4kInBytes |-> 0, frag16kInBytes |-> 0,
     frag64kInBytes |-> 0]
NoTotals == [exec |-> ZeroStats, readOnly |-> ZeroStats, readWrite |-> ZeroStats]
NoTree == [dirs |-> << >>, files |-> << >>]
NoEntry == [path |-> << >>, file |-> 0, symlink |-> FALSE]

\* A default-constructed std::ofstream: no file, no error.
NoStream == [open |-> FALSE, good |-> TRUE]

\* The tools that are not running: elftool and the fragmentation analyzer.
NoParams == [show_wss |-> FALSE, swap_enabled |-> FALSE, total_pswap |-> 0]
NoRings == [ams_rb |-> << >>, lmkd_rb |-> << >>]
ProcIdle ==
    /\ pids = 0
    /\ params = NoParams
    /\ pi = 0
    /\ swap_offset_array = << >>
    /\ procs = << >>
    /\ swapReads = {}
BpfIdle == handlers = << >> /\ rings = NoRings /\ events = 0
NoFrag == [frag4k |-> 0, frag16k |-> 0, frag64k |-> 0]
ExtIdle == elfFile = NoStream /\ totalFrag = NoFrag /\ ProcIdle /\ BpfIdle
DiffIdle == input2 = << >> /\ diff = << >>
FragIdle ==
    /\ tree = NoTree
    /\ stack = << >>
    /\ totals = NoTotals
    /\ cur = NoEntry
    /\ processedFiles = 0
    /\ printed = << >>
    /\ analyzed = << >>
    /\ loadStats = ZeroStats

(***************************************************************************)
(* Parsing (the first step of every tool's main).                          *)
(***************************************************************************)
Init ==
    /\ input \in InputFiles
    /\ pc = "start"
    /\ bin = EmptyBinary
    /\ prevPhdrs = << >>
    /\ alignCalls = 0
    /\ out = << >>
    /\ wi = 0
    /\ wlog = {}
    /\ outs = [c \in 0..MaxFileAligns |-> NoFile]
    /\ ExtIdle
    /\ DiffIdle
    /\ FragIdle
    /\ bin2 = EmptyBinary
    /\ cmp = NoCmp

Parse ==
    /\ pc = "start"
    /\ ~ParseError(input)
    /\ bin' = ParseElfFile(input)
    /\ pc' = "parsed"
    /\ UNCHANGED << input, prevPhdrs, alignCalls, out, wi, wlog, outs, bin2, cmp >>
    /\ UNCHANGED << diffVars, fragVars, extVars >>

ParseFatal ==
    /\ pc = "start"
    /\ ParseError(input)
    /\ pc' = "fatal"
    /\ UNCHANGED << input, bin, prevPhdrs, alignCalls, out, wi, wlog, outs, bin2, cmp >>
    /\ UNCHANGED << diffVars, fragVars, extVars >>

(***************************************************************************)
(* AlignProgramHeaders(&elf64Binary.phdrs), at most `limit` times.         *)
(***************************************************************************)
AlignProgramHeaders(limit) ==
    /\ pc = "parsed"
    /\ alignCalls < limit
    /\ prevPhdrs' = bin.phdrs
    /\ bin' = [bin EXCEPT !.phdrs = AlignedPhdrs(bin.phdrs)]
    /\ alignCalls' = alignCalls + 1
    /\ UNCHANGED << input, pc, out, wi, wlog, outs, bin2, cmp >>
    /\ UNCHANGED << diffVars, fragVars, extVars >>

(***************************************************************************)
(* WriteElfFile(elf64Binary, fileName), one step per write of the stream.  *)
(* Every write can fail (the stream is no longer good): Write then exits.  *)
(***************************************************************************)
\* Where the loops stand with index i: the loop goes on, or the next part begins.
\* The bound of the section loop is sections.size() - 1 in size_t.
ShdrsAt(i) == IF i < Len(bin.shdrs) THEN << "shdrs", i >> ELSE << "close", 0 >>
SectionsAt(i) ==
    IF i < Sub(Len(bin.sections), 1) THEN << "sections", i >> ELSE << "last", 0 >>
PhdrsAt(i) == IF i < Len(bin.phdrs) THEN << "phdrs", i >> ELSE SectionsAt(1)

\* Faulty variant: Write without its test of good().
ContinueUnchecked(st, next) ==
    /\ pc' \in (CASE st \in { "ok", "exit" } -> { next[1] }
                  [] st = "nullwrite" -> NullWriteOutcomes
                  [] st = "outofrange" -> OutOfRangeOutcomes)
    /\ wi' = IF st \in { "ok", "exit" } THEN next[2] ELSE wi
    /\ elfFile' = IF st = "exit" THEN [elfFile EXCEPT !.good = FALSE] ELSE elfFile

\* The step after a write that ended st: on to `next`, or the process ends.
\* A write that fails leaves the stream not good(), and Write exits on that.
Continue(st, next) ==
    /\ pc' \in (CASE st = "ok" -> { next[1] }
                  [] st = "exit" -> { "exit" }
                  [] st = "nullwrite" -> NullWriteOutcomes
                  [] st = "outofrange" -> OutOfRangeOutcomes)
    /\ wi' = IF st = "ok" THEN next[2] ELSE wi
    /\ elfFile' = IF st = "exit" \/ pc' = "exit"
                  THEN [elfFile EXCEPT !.good = FALSE] ELSE elfFile

OpenElfFile ==
    /\ pc = "parsed"
    /\ ~outs[alignCalls].written
    /\ \E opened \in BOOLEAN :
          /\ pc' = IF opened THEN "ehdr" ELSE "exit"
          /\ elfFile' = [open |-> opened, good |-> opened]
    /\ out' = << >>
    /\ wlog' = {}
    /\ wi' = 0
    /\ UNCHANGED << input, bin, prevPhdrs, alignCalls, outs, bin2, cmp >>
    /\ UNCHANGED << diffVars, fragVars, restVars >>

WriteEhdr ==
    /\ pc = "ehdr"
    /\ \E fault \in BOOLEAN :
          /\ out' = IF fault THEN out ELSE out \o EncodeEhdr(bin.ehdr)
          /\ Continue(IF fault THEN "exit" ELSE "ok", PhdrsAt(0))
    /\ UNCHANGED << input, bin, prevPhdrs, alignCalls, wlog, outs, bin2, cmp >>
    /\ UNCHANGED << diffVars, fragVars, restVars >>

WritePhdr ==
    /\ pc = "phdrs"
    /\ \E fault \in BOOLEAN :
          /\ out' = IF fault THEN out ELSE out \o EncodePhdr(bin.phdrs[wi + 1])
          /\ Continue(IF fault THEN "exit" ELSE "ok", PhdrsAt(wi + 1))
    /\ UNCHANGED << input, bin, prevPhdrs, alignCalls, wlog, outs, bin2, cmp >>
    /\ UNCHANGED << diffVars, fragVars, restVars >>

\* One iteration of the loop of WriteSections.
WriteSection ==
    /\ pc = "sections"
    /\ IF wi + 2 > Len(bin.shdrs) \/ wi + 1 > Len(bin.sections)
       THEN \* shdrs[i + 1] lies past the end of the vector
            /\ Continue("outofrange", SectionsAt(wi + 1))
            /\ UNCHANGED << out, wlog >>
       ELSE IF bin.shdrs[wi + 1].sh_type = SHT_NOBITS
       THEN /\ Continue("ok", SectionsAt(wi + 1))
            /\ UNCHANGED << out, wlog >>
       ELSE \E fault \in 0..2 :
               LET w == WriteSectionAndPadding(out, bin.shdrs[wi + 1],
                            bin.sections[wi + 1], bin.shdrs[wi + 2].sh_offset, fault)
               IN  /\ out' = w.out
                   /\ wlog' = wlog \cup { [sec |-> wi, at |-> Len(out),
                                           size |-> bin.sections[wi + 1].size,
                                           null |-> bin.sections[wi + 1].null] }
                   /\ Continue(w.st, SectionsAt(wi + 1))
    /\ UNCHANGED << input, bin, prevPhdrs, alignCalls, outs, bin2, cmp >>
    /\ UNCHANGED << diffVars, fragVars, restVars >>

WriteLastSection ==
    /\ pc = "last"
    /\ IF Len(bin.sections) > 1
       THEN LET last == Len(bin.sections)
            IN  \E fault \in 0..2 :
                   LET w == WriteSectionAndPadding(out, bin.shdrs[last],
                                bin.sections[last], bin.ehdr.e_shoff, fault)
                   IN  /\ out' = w.out
                       /\ wlog' = wlog \cup { [sec |-> last - 1, at |-> Len(out),
                                               size |-> bin.sections[last].size,
                                               null |-> bin.sections[last].null] }
                       /\ Continue(w.st, ShdrsAt(0))
       ELSE /\ Continue("ok", ShdrsAt(0))
            /\ UNCHANGED << out, wlog >>
    /\ UNCHANGED << input, bin, prevPhdrs, alignCalls, outs, bin2, cmp >>
    /\ UNCHANGED << diffVars, fragVars, restVars >>

WriteShdr ==
    /\ pc = "shdrs"
    /\ \E fault \in BOOLEAN :
          /\ out' = IF fault THEN out ELSE out \o EncodeShdr(bin.shdrs[wi + 1])
          /\ Continue(IF fault THEN "exit" ELSE "ok", ShdrsAt(wi + 1))
    /\ UNCHANGED << input, bin, prevPhdrs, alignCalls, wlog, outs, bin2, cmp >>
    /\ UNCHANGED << diffVars, fragVars, restVars >>

\* elfFile.close(): the output file is complete.
CloseElfFile ==
    /\ pc = "close"
    /\ elfFile' = [elfFile EXCEPT !.open = FALSE]
    /\ outs' = [outs EXCEPT ![alignCalls] = [written |-> TRUE, bytes |-> out]]
    /\ pc' = "parsed"
    /\ UNCHANGED << input, bin, prevPhdrs, alignCalls, out, wi, wlog, bin2, cmp >>
    /\ UNCHANGED << diffVars, fragVars, restVars >>

WriteElfFile ==
    \/ OpenElfFile
    \/ WriteEhdr
    \/ WritePhdr
    \/ WriteSection
    \/ WriteLastSection
    \/ WriteShdr
    \/ CloseElfFile

Next ==
    \/ Parse
    \/ ParseFatal
    \/ AlignProgramHeaders(MaxFileAligns)
    \/ WriteElfFile

Spec == Init /\ [][Next]_vars

(***************************************************************************)
(* The aligner alone, on models parsed from files whose program headers    *)
(* take the sizes and alignments that matter to the rounding: zero, one,   *)
(* a value that is no power of two, page sizes, already aligned sizes and  *)
(* sizes at the top of the word.                                           *)
(***************************************************************************)
AlignSizes == { << 0, 0 >>, << 9, 67834 >>, << 4096, 65536 >>,
                << Word - 4096, Word - 1 >> }
AlignValues == { 0, 1, 6, 4096, 65536 }
AlignPhdrValues ==
    { [p_type |-> PT_LOAD, p_flags |-> 5, p_offset |-> 4096, p_vaddr |-> 69632,
       p_paddr |-> 69632, p_filesz |-> sz[1], p_memsz |-> sz[2], p_align |-> a] :
         sz \in AlignSizes, a \in AlignValues }
    \cup
    { [p_type |-> PT_TLS, p_flags |-> 4, p_offset |-> 64, p_vaddr |-> 65600,
       p_paddr |-> 65600, p_filesz |-> 9, p_memsz |-> 12, p_align |-> a] :
         a \in { 0, 6, 4096 } }

AlignLayouts ==
    [phdrs : SeqsUpTo(AlignPhdrValues, MaxPhdrs), gap0 : {0}, table : {"none"},
     secs : { << >> }]

InitAlign ==
    /\ input \in { LayoutFile(l) : l \in AlignLayouts }
    /\ pc = "parsed"
    /\ bin = ParseElfFile(input)
    /\ prevPhdrs = << >>
    /\ alignCalls = 0
    /\ out = << >>
    /\ wi = 0
    /\ wlog = {}
    /\ outs = [c \in 0..MaxFileAligns |-> NoFile]
    /\ ExtIdle
    /\ DiffIdle
    /\ FragIdle
    /\ bin2 = EmptyBinary
    /\ cmp = NoCmp

NextAlign == AlignProgramHeaders(MaxAlignCalls)

SpecAlign == InitAlign /\ [][NextAlign]_vars

(***************************************************************************)
(* The comparator, on a parsed model and a copy of it in which fields of   *)
(* program headers are overwritten.                                        *)
(***************************************************************************)
CmpLayouts ==
    [phdrs : FilePhdrs \ { << >> }, gap0 : {0}, table : {"last"}, secs : { << >> }]
FieldValues == { 0, 1, 4096 }

\* The (index, field) pairs in which two header vectors of one length differ.
DifferingFields(phdrs1, phdrs2) ==
    { x \in (1..Len(phdrs1)) \X DOMAIN LoadSegment :
         phdrs1[x[1]][x[2]] # phdrs2[x[1]][x[2]] }

InitCmp ==
    /\ input \in { LayoutFile(l) : l \in CmpLayouts }
    /\ pc = "loaded"
    /\ bin = ParseElfFile(input)
    /\ bin2 = ParseElfFile(input)
    /\ prevPhdrs = << >>
    /\ alignCalls = 0
    /\ out = << >>
    /\ wi = 0
    /\ wlog = {}
    /\ outs = [c \in 0..MaxFileAligns |-> NoFile]
    /\ ExtIdle
    /\ DiffIdle
    /\ FragIdle
    /\ cmp = NoCmp

\* One field of one program header of the copy is overwritten.
MutatePhdrField ==
    /\ pc = "loaded"
    /\ \E i \in 1..Len(bin2.phdrs), f \in DOMAIN LoadSegment, v \in FieldValues :
          /\ v # bin2.phdrs[i][f]
          /\ bin2' = [bin2 EXCEPT !.phdrs[i][f] = v]
    /\ Cardinality(DifferingFields(bin.phdrs, bin2'.phdrs)) <= MaxDiffs
    /\ UNCHANGED << input, pc, bin, prevPhdrs, alignCalls, out, wi, wlog, outs, cmp >>
    /\ UNCHANGED << diffVars, fragVars, extVars >>

\* ArePhdrsEqual(&elf64Binary1.phdrs, &elf64Binary2.phdrs) in elftool's main.
ComparePhdrs ==
    /\ pc = "loaded"
    /\ cmp' = ArePhdrsEqual(bin.phdrs, bin2.phdrs)
    /\ pc' = "compared"
    /\ UNCHANGED << input, bin, prevPhdrs, alignCalls, out, wi, wlog, outs, bin2 >>
    /\ UNCHANGED << diffVars, fragVars, extVars >>

NextCmp ==
    \/ MutatePhdrField
    \/ ComparePhdrs

SpecCmp == InitCmp /\ [][NextCmp]_vars

(***************************************************************************)
(* elftool (elftool.cpp): both files are parsed, the second is printed,    *)
(* and the four comparisons are made.  The second file is the first one,   *)
(* another file, or the first one with one byte overwritten: the low byte  *)
(* of a field of a header, or a byte of a section.                         *)
(***************************************************************************)
DiffLayouts ==
    { [phdrs |-> << LoadSegment >>, gap0 |-> 0, table |-> "last",
       secs |-> << [type |-> SHT_PROGBITS, size |-> 2, gap |-> 0],
                   [type |-> SHT_NOBITS, size |-> 4, gap |-> 0] >>],
      [phdrs |-> << LoadSegment, TlsSegment >>, gap0 |-> 0, table |-> "last",
       secs |-> << [type |-> SHT_PROGBITS, size |-> 2, gap |-> 0] >>],
      [phdrs |-> << >>, gap0 |-> 0, table |-> "none", secs |-> << >>] }

\* The offsets of the fields of the header structures (<elf.h>); e_phoff (32)
\* and e_shoff (40) are left as they are, and so is the count of a table the
\* file does not have, so that the tables stay where the headers are.
EhdrOffsets == (0..(EI_NIDENT - 1)) \cup { 16, 18, 20, 24, 48, 52, 54, 58, 62 }
PhdrOffsets == { 0, 4, 8, 16, 24, 32, 40, 48 }
ShdrOffsets == { 0, 4, 8, 16, 24, 32, 40, 44, 48, 56 }

\* The offsets in the file of layout l at which a byte is overwritten.
PatchOffsets(l) ==
    EhdrOffsets
    \cup { o \in { 56 } : Len(l.phdrs) > 0 }       \* e_phnum of a table there is
    \cup { o \in { 60 } : NumSections(l) > 0 }     \* e_shnum of a table there is
    \cup { SizeofEhdr + SizeofPhdr * i + o : i \in 0..(Len(l.phdrs) - 1), o \in PhdrOffsets }
    \cup { TableOffset(l) + SizeofShdr * i + o : i \in 0..(NumSections(l) - 1), o \in ShdrOffsets }
    \cup { k \in ContentStart(l)..(TableOffset(l) - 1) : l.table = "last" }
PatchValues == { 0, 1, 8 }

Patch(f, off, v) == [f EXCEPT ![off + 1] = v]
Patched(l) ==
    { Patch(LayoutFile(l), off, v) : off \in PatchOffsets(l), v \in PatchValues }
    \ { LayoutFile(l) }

InitDiff ==
    /\ \E l \in DiffLayouts :
          /\ input = LayoutFile(l)
          /\ input2 \in { LayoutFile(m) : m \in DiffLayouts } \cup Patched(l)
    /\ pc = "elftool"
    /\ bin = EmptyBinary
    /\ bin2 = EmptyBinary
    /\ diff = << >>
    /\ prevPhdrs = << >>
    /\ alignCalls = 0
    /\ out = << >>
    /\ wi = 0
    /\ wlog = {}
    /\ outs = [c \in 0..MaxFileAligns |-> NoFile]
    /\ ExtIdle
    /\ cmp = NoCmp
    /\ FragIdle

\* Elf64Parser::ParseElfFile(fileName1, elf64Binary1).
ParseFile1 ==
    /\ pc = "elftool"
    /\ IF ParseError(input)
       THEN pc' = "fatal" /\ UNCHANGED bin
       ELSE pc' = "parsed1" /\ bin' = ParseElfFile(input)
    /\ UNCHANGED << input, prevPhdrs, alignCalls, out, wi, wlog, outs, bin2, cmp >>
    /\ UNCHANGED << diffVars, fragVars, extVars >>

\* Elf64Parser::ParseElfFile(fileName2, elf64Binary2).
ParseFile2 ==
    /\ pc = "parsed1"
    /\ IF ParseError(input2)
       THEN pc' = "fatal" /\ UNCHANGED bin2
       ELSE pc' = "parsed2" /\ bin2' = ParseElfFile(input2)
    /\ UNCHANGED << input, bin, prevPhdrs, alignCalls, out, wi, wlog, outs, cmp >>
    /\ UNCHANGED << diffVars, fragVars, extVars >>

\* elf64Binary2.PrintAll().  PrintShdrs takes sections[ehdr.e_shstrndx]: an
\* index past the end of the vector is undefined behaviour.
PrintAll ==
    /\ pc = "parsed2"
    /\ pc' \in (IF bin2.ehdr.e_shstrndx < Len(bin2.sections)
                THEN { "ehdrs" }
                ELSE OutOfRangeOutcomes \cup { "ehdrs" })
    /\ diff' = IF pc' = "ehdrs" THEN Append(diff, [check |-> "PrintAll"]) ELSE diff
    /\ UNCHANGED << input, bin, prevPhdrs, alignCalls, out, wi, wlog, outs, bin2, cmp >>
    /\ UNCHANGED << input2, fragVars, extVars >>

\* What a comparison of main leaves: the verdict and the differences printed.
Verdict(at, next, result) ==
    /\ pc' = next
    /\ diff' = Append(diff, [check |-> at, equal |-> result.equal,
                             report |-> result.report])
    /\ UNCHANGED << input, bin, prevPhdrs, alignCalls, out, wi, wlog, outs, bin2, cmp >>
    /\ UNCHANGED << input2, fragVars, extVars >>

CompareEhdrs ==
    /\ pc = "ehdrs"
    /\ Verdict("ehdrs", "phdrs", AreEhdrsEqual(bin.ehdr, bin2.ehdr))

ComparePhdrVectors ==
    /\ pc = "phdrs"
    /\ Verdict("phdrs", "shdrs", ArePhdrsEqual(bin.phdrs, bin2.phdrs))

CompareShdrs ==
    /\ pc = "shdrs"
    /\ Verdict("shdrs", "sd", AreShdrsEqual(bin.shdrs, bin2.shdrs))

CompareSd ==
    /\ pc = "sd"
    /\ Verdict("sd", "done", AreSdEqual(bin.sections, bin2.sections))

NextDiff ==
    \/ ParseFile1
    \/ ParseFile2
    \/ PrintAll
    \/ CompareEhdrs
    \/ ComparePhdrVectors
    \/ CompareShdrs
    \/ CompareSd

SpecDiff == InitDiff /\ [][NextDiff]_vars

(***************************************************************************)
(* The fragmentation tool (elf64-cal-frag.cpp): CalculateFragmentation()   *)
(* walks the tree under the root directory.  Paths are sequences of        *)
(* characters.  A directory holds entries; an entry has its name, whether  *)
(* it is a symbolic link, and the kind and the number of what it is or     *)
(* leads to: a regular file, a directory, or something else.               *)
(***************************************************************************)
DotSo == << ".", "s", "o" >>
RootPath == << "r" >>
PathOf(dir, name) == dir \o << "/" >> \o name

Entry(name, kind, symlink, node) ==
    [name |-> name, kind |-> kind, symlink |-> symlink, node |-> node]

\* The files of the tree: a 64-bit object with one PT_LOAD segment of every
\* combination of permissions and of the sizes that matter to the page
\* counts, objects with two and with no program headers, a 32-bit object, a
\* file too short for an executable header, and a 64-bit object cut short
\* inside its program header table.
FragSizes == { 0, 1, PS_4K, PS_16K, PS_64K, 67834, Word - 1 }
FragLayout(phdrs) == [phdrs |-> phdrs, gap0 |-> 0, table |-> "last", secs |-> << >>]
FragSegmentFiles ==
    { LayoutFile(FragLayout(<< [LoadSegment EXCEPT !.p_flags = fl, !.p_memsz = m] >>)) :
         fl \in 0..(PF_R + PF_W + PF_X), m \in FragSizes }
StdFile == LayoutFile(FragLayout(<< LoadSegment, TlsSegment >>))
File32 ==
    EncodeEhdr(Ehdr32(FragLayout(<< LoadSegment >>)))
    \o SubSeq(LayoutFile(FragLayout(<< LoadSegment >>)), SizeofEhdr + 1,
              Len(LayoutFile(FragLayout(<< LoadSegment >>))))
ShortFile == SubSeq(StdFile, 1, EI_CLASS)
CutFile == SubSeq(StdFile, 1, SizeofEhdr + SizeofPhdr + 1)
FragFiles ==
    FragSegmentFiles
    \cup { StdFile, LayoutFile(FragLayout(<< >>)), File32, ShortFile, CutFile }

\* Trees: (1) files with and without the suffix, a symbolic link to a file, a
\* subdirectory and an entry that is no file; (2) a directory and a symbolic
\* link to it; (3) a directory whose name has the suffix and a symbolic link
\* that leads nowhere; (4) a symbolic link to the directory that holds it.
Trees ==
    { [dirs |-> << { Entry(<< "a", ".", "s", "o" >>, "file", FALSE, 1),
                     Entry(<< "d", ".", "s", "o" >>, "file", TRUE, 1),
                     Entry(<< "s", "o" >>, "file", FALSE, 3),
                     Entry(<< "e", ".", "s", "o" >>, "other", FALSE, 0),
                     Entry(<< "s", "u", "b" >>, "dir", FALSE, 2) },
                   { Entry(<< "b", ".", "s", "o" >>, "file", FALSE, 2) } >>,
       files |-> << x, y, StdFile >>] : x \in FragFiles, y \in { StdFile, File32 } }
    \cup
    { [dirs |-> << { Entry(<< "l", "i", "b" >>, "dir", FALSE, 2),
                     Entry(<< "l", "i", "b", "2" >>, "dir", TRUE, 2) },
                   { Entry(<< "a", ".", "s", "o" >>, "file", FALSE, 1) } >>,
       files |-> << x >>] : x \in { StdFile, File32 } }
    \cup
    { [dirs |-> << { Entry(<< "x", ".", "s", "o" >>, "dir", FALSE, 2),
                     Entry(<< "g", ".", "s", "o" >>, "other", TRUE, 0) },
                   { Entry(<< "a", ".", "s", "o" >>, "file", FALSE, 1) } >>,
       files |-> << x >>] : x \in { StdFile, ShortFile } }
    \cup
    { [dirs |-> << { Entry(<< "a", ".", "s", "o" >>, "file", FALSE, 1),
                     Entry(<< "u", "p" >>, "dir", TRUE, 1) } >>,
       files |-> << x >>] : x \in { StdFile, File32 } }

InitFrag ==
    /\ tree \in Trees
    /\ pc = "fragcalc"
    /\ stack = << >>
    /\ totals = NoTotals
    /\ cur = NoEntry
    /\ processedFiles = 0
    /\ printed = << >>
    /\ analyzed = << >>
    /\ loadStats = ZeroStats
    /\ input = << >>
    /\ bin = EmptyBinary
    /\ bin2 = EmptyBinary
    /\ prevPhdrs = << >>
    /\ alignCalls = 0
    /\ out = << >>
    /\ wi = 0
    /\ wlog = {}
    /\ outs = [c \in 0..MaxFileAligns |-> NoFile]
    /\ ExtIdle
    /\ cmp = NoCmp
    /\ DiffIdle

\* A call of ProcessDir: the directory_iterator of the directory, and the
\* symbolic links its path goes through.
Frame(path, dir, links) ==
    [path |-> path, dir |-> dir, links |-> links, todo |-> tree.dirs[dir]]
Top == stack[Len(stack)]

\* CalculateFragmentation() calls ProcessDir(rootDir).
ProcessRootDir ==
    /\ pc = "fragcalc"
    /\ stack' = << Frame(RootPath, 1, 0) >>
    /\ pc' = "walk"
    /\ UNCHANGED << tree, totals, cur, processedFiles, printed, analyzed, loadStats >>
    /\ UNCHANGED << input, bin, prevPhdrs, alignCalls, out, wi, wlog, outs, bin2, cmp >>
    /\ UNCHANGED << diffVars, extVars >>

\* One iteration of the loop of ProcessDir, up to the header-only parse: the
\* iterator yields an entry of the directory, in any order.  is_regular_file
\* and is_directory follow a symbolic link, is_symlink does not.  The system
\* resolves a path through at most MaxSymlinks links: beyond that the
\* directory_iterator of the recursive call throws, and nothing catches it.
NextEntry ==
    /\ pc = "walk"
    /\ \E entry \in Top.todo :
          LET path == PathOf(Top.path, entry.name)
              rest == [stack EXCEPT ![Len(stack)].todo = @ \ { entry }]
          IN  IF EndsWith(path, DotSo) /\ ~entry.symlink /\ entry.kind = "file"
              THEN /\ cur' = [path |-> path, file |-> entry.node,
                              symlink |-> entry.symlink]
                   /\ stack' = rest
                   /\ IF HeaderParseError(tree.files[entry.node])
                      THEN pc' = "fatal" /\ UNCHANGED bin
                      ELSE /\ pc' = "header"
                           /\ bin' = ParseExecutableHeader(tree.files[entry.node])
              ELSE IF entry.kind = "dir"
              THEN LET links == Top.links + (IF entry.symlink THEN 1 ELSE 0)
                   IN  IF links > MaxSymlinks
                       THEN /\ pc' = "abort"
                            /\ stack' = rest
                            /\ UNCHANGED << cur, bin >>
                       ELSE /\ stack' = Append(rest, Frame(path, entry.node, links))
                            /\ UNCHANGED << pc, cur, bin >>
              ELSE /\ stack' = rest
                   /\ UNCHANGED << pc, cur, bin >>
    /\ UNCHANGED << tree, totals, processedFiles, printed, analyzed, loadStats >>
    /\ UNCHANGED << input, prevPhdrs, alignCalls, out, wi, wlog, outs, bin2, cmp >>
    /\ UNCHANGED << diffVars, extVars >>

\* The rest of the iteration for a file whose header is parsed: a 64-bit
\* object is parsed in full and analyzed, any other file is left alone.
AnalyzeFile ==
    /\ pc = "header"
    /\ IF IsElf64(bin.ehdr)
       THEN IF ParseError(tree.files[cur.file])
            THEN /\ pc' = "fatal"
                 /\ UNCHANGED << bin, totals, processedFiles, printed, analyzed,
                                 loadStats, totalFrag >>
            ELSE LET parsed == ParseElfFile(tree.files[cur.file])
                     r == CalculateFragmentation(parsed.phdrs, Len(parsed.phdrs),
                                                 totals, loadStats)
                 IN  /\ bin' = parsed
                     /\ totals' = r.totals
                     /\ printed' = r.printed
                     /\ loadStats' = r.loads
                     /\ totalFrag' = TotalFragmentation(parsed.phdrs, Len(parsed.phdrs),
                                                        totalFrag)
                     /\ processedFiles' = processedFiles + 1
                     /\ analyzed' = Append(analyzed, cur)
                     /\ pc' = "walk"
       ELSE /\ pc' = "walk"
            /\ UNCHANGED << bin, totals, processedFiles, printed, analyzed, loadStats,
                            totalFrag >>
    /\ UNCHANGED << tree, stack, cur >>
    /\ UNCHANGED << input, prevPhdrs, alignCalls, out, wi, wlog, outs, bin2, cmp >>
    /\ UNCHANGED << diffVars, elfFile, procVars, bpfVars >>

\* The iterator is at its end: ProcessDir returns, to the ProcessDir that
\* called it or to CalculateFragmentation().
ReturnFromDir ==
    /\ pc = "walk"
    /\ Top.todo = {}
    /\ stack' = SubSeq(stack, 1, Len(stack) - 1)
    /\ pc' = IF Len(stack) = 1 THEN "summary" ELSE "walk"
    /\ UNCHANGED << tree, totals, cur, processedFiles, printed, analyzed, loadStats >>
    /\ UNCHANGED << input, bin, prevPhdrs, alignCalls, out, wi, wlog, outs, bin2, cmp >>
    /\ UNCHANGED << diffVars, extVars >>

\* The three totals and the count of processed files are printed.
PrintSummary ==
    /\ pc = "summary"
    /\ pc' = "done"
    /\ UNCHANGED fragVars
    /\ UNCHANGED << input, bin, prevPhdrs, alignCalls, out, wi, wlog, outs, bin2, cmp >>
    /\ UNCHANGED << diffVars, extVars >>

NextFrag ==
    \/ ProcessRootDir
    \/ NextEntry
    \/ AnalyzeFile
    \/ ReturnFromDir
    \/ PrintSummary

SpecFrag == InitFrag /\ [][NextFrag]_vars

(***************************************************************************)
(* procrank (run_procrank).                                                *)
(***************************************************************************)
USHRT_MAX == Pow2(CountBits) - 1
getpagesize == PS_4K

\* The swap offsets a process can have, and the lists of them a process
\* can hold: offsets inside swap_offset_array and past its end.
SwapOffsets == 0..2
OffsetLists == SeqsUpTo(SwapOffsets, 2)

\* What the constructor of ProcessRecord leaves: a record that is not valid,
\* one without mappings, or one with the usage and the swap offsets read
\* from /proc.
ProcessRecords ==
    [valid : BOOLEAN, vss : { 0 }, pss : { 0 }, swap_offsets_ : { << >> },
     proportional_swap_ : { 0 }]
    \cup [valid : { TRUE }, vss : { 1 }, pss : { 1, 2 },
          swap_offsets_ : OffsetLists, proportional_swap_ : { 0 }]

\* A faulty count_swap_offsets that does not test the offset against the
\* size of the array and leaves an offset past the end uncounted.
RECURSIVE count_swap_offsets_unchecked(_, _)
count_swap_offsets_unchecked(offs, array) ==
    IF offs = << >> THEN [ok |-> TRUE, array |-> array]
    ELSE LET off == Head(offs)
         IN  IF off >= Len(array)
             THEN count_swap_offsets_unchecked(Tail(offs), array)
             ELSE IF array[off + 1] = USHRT_MAX
             THEN [ok |-> FALSE, array |-> array]
             ELSE count_swap_offsets_unchecked(Tail(offs),
                      [array EXCEPT ![off + 1] = (@ + 1) % Pow2(CountBits)])

\* count_swap_offsets(proc, swap_offset_array, err) over the offsets offs:
\* whether it returned true, and the array it leaves.
RECURSIVE count_swap_offsets(_, _)
count_swap_offsets(offs, array) ==
    IF offs = << >> THEN [ok |-> TRUE, array |-> array]
    ELSE LET off == Head(offs)
         IN  IF off >= Len(array)
             THEN [ok |-> FALSE, array |-> array]
             ELSE IF array[off + 1] = USHRT_MAX
             THEN [ok |-> FALSE, array |-> array]
             ELSE count_swap_offsets(Tail(offs),
                      [array EXCEPT ![off + 1] = (@ + 1) % Pow2(CountBits)])

\* The reads of swap_offset_array that ProcessRecord::CalculateSwap makes for
\* the offsets offs: the offset, the size of the array and the entry read.
SwapReadsOf(offs, array) ==
    { [off |-> offs[k], size |-> Len(array),
       entry |-> IF offs[k] < Len(array) THEN array[offs[k] + 1] ELSE 0] :
         k \in 1..Len(offs) }

\* proportional_swap_ after the loop of CalculateSwap, in KB.
RECURSIVE ProportionalSwap(_, _)
ProportionalSwap(offs, array) ==
    IF offs = << >> THEN 0
    ELSE Add(getpagesize \div array[Head(offs) + 1], ProportionalSwap(Tail(offs), array))

\* The orders std::sort can leave the records in: descending by pss, or
\* ascending when reverse_sort is set.
Sorted(recs, reverse_sort) ==
    { q \in [1..Len(recs) -> 1..Len(recs)] :
         /\ \A i, j \in 1..Len(recs) : q[i] = q[j] => i = j
         /\ \A i \in 1..(Len(recs) - 1) :
               IF reverse_sort THEN recs[q[i]].pss <= recs[q[i + 1]].pss
               ELSE recs[q[i]].pss >= recs[q[i + 1]].pss }

InitProcrank ==
    /\ pc = "procrank"
    /\ pids \in 0..MaxProcs
    /\ params \in [show_wss : BOOLEAN, swap_enabled : { FALSE }, total_pswap : { 0 }]
    /\ pi = 0
    /\ swap_offset_array = << >>
    /\ procs = << >>
    /\ swapReads = {}
    /\ elfFile = NoStream
    /\ totalFrag = NoFrag
    /\ BpfIdle
    /\ input = << >>
    /\ bin = EmptyBinary
    /\ bin2 = EmptyBinary
    /\ prevPhdrs = << >>
    /\ alignCalls = 0
    /\ out = << >>
    /\ wi = 0
    /\ wlog = {}
    /\ outs = [c \in 0..MaxFileAligns |-> NoFile]
    /\ cmp = NoCmp
    /\ DiffIdle
    /\ FragIdle

\* run_procrank up to the call of populate_procs: the system's memory info
\* is read, swap_enabled is set and the swap array allocated.
ReadMemInfo ==
    /\ pc = "procrank"
    /\ \/ /\ pc' = "false"
          /\ UNCHANGED << params, swap_offset_array >>
       \/ \E swap_pages \in 0..MaxSwapPages :
             /\ params' = [params EXCEPT !.swap_enabled = swap_pages > 0]
             /\ swap_offset_array' = [k \in 1..(swap_pages + 1) |-> 0]
             /\ pc' = "populate"
    /\ UNCHANGED << pids, pi, procs, swapReads >>
    /\ UNCHANGED << input, bin, prevPhdrs, alignCalls, out, wi, wlog, outs, bin2, cmp >>
    /\ UNCHANGED << diffVars, fragVars, elfFile, totalFrag, bpfVars >>

\* One iteration of the loop of populate_procs: the record of the next pid
\* is made; it is skipped when not valid or without mappings, its swap
\* offsets are counted, and it is kept.
PopulateProc ==
    /\ pc = "populate"
    /\ pids > 0
    /\ pids' = pids - 1
    /\ \E proc \in ProcessRecords :
          IF ~proc.valid \/ proc.vss = 0
          THEN UNCHANGED << pc, swap_offset_array, procs >>
          ELSE IF ~params.show_wss /\ params.swap_enabled
          THEN LET r == count_swap_offsets(proc.swap_offsets_, swap_offset_array)
               IN  /\ swap_offset_array' = r.array
                   /\ pc' = IF r.ok THEN "populate" ELSE "false"
                   /\ procs' = IF r.ok THEN Append(procs, proc) ELSE procs
          ELSE /\ procs' = Append(procs, proc)
               /\ UNCHANGED << pc, swap_offset_array >>
    /\ UNCHANGED << params, pi, swapReads >>
    /\ UNCHANGED << input, bin, prevPhdrs, alignCalls, out, wi, wlog, outs, bin2, cmp >>
    /\ UNCHANGED << diffVars, fragVars, elfFile, totalFrag, bpfVars >>

\* populate_procs has returned true: nothing to print, or the records are
\* sorted and the header is printed.
SortProcs ==
    /\ pc = "populate"
    /\ pids = 0
    /\ IF procs = << >>
       THEN pc' = "true" /\ UNCHANGED procs
       ELSE /\ \E reverse_sort \in BOOLEAN :
                 \E q \in Sorted(procs, reverse_sort) :
                    procs' = [i \in 1..Len(procs) |-> procs[q[i]]]
            /\ pc' = "totals"
    /\ UNCHANGED << pids, params, pi, swap_offset_array, swapReads >>
    /\ UNCHANGED << input, bin, prevPhdrs, alignCalls, out, wi, wlog, outs, bin2, cmp >>
    /\ UNCHANGED << diffVars, fragVars, elfFile, totalFrag, bpfVars >>

\* One iteration of the last loop of run_procrank: add_to_totals, which
\* calls CalculateSwap when swap is shown.  A read past the end of the array
\* and a division by zero are undefined.
AddToTotals ==
    /\ pc = "totals"
    /\ pi < Len(procs)
    /\ LET proc == procs[pi + 1]
           offs == proc.swap_offsets_
       IN  IF ~params.show_wss /\ params.swap_enabled
           THEN /\ swapReads' = swapReads \cup SwapReadsOf(offs, swap_offset_array)
                /\ IF \E r \in SwapReadsOf(offs, swap_offset_array) : r.off >= r.size
                   THEN /\ pc' \in OutOfRangeOutcomes
                        /\ UNCHANGED << procs, params, pi >>
                   ELSE IF \E r \in SwapReadsOf(offs, swap_offset_array) : r.entry = 0
                   THEN /\ pc' = "sigfpe"
                        /\ UNCHANGED << procs, params, pi >>
                   ELSE LET pswap == ProportionalSwap(offs, swap_offset_array) \div 1024
                        IN  /\ procs' = [procs EXCEPT ![pi + 1].proportional_swap_ = pswap]
                            /\ params' = [params EXCEPT !.total_pswap = Add(@, pswap)]
                            /\ pi' = pi + 1
                            /\ pc' = IF pi + 1 = Len(procs) THEN "true" ELSE "totals"
           ELSE /\ pi' = pi + 1
                /\ pc' = IF pi + 1 = Len(procs) THEN "true" ELSE "totals"
                /\ UNCHANGED << procs, params, swapReads >>
    /\ UNCHANGED << pids, swap_offset_array >>
    /\ UNCHANGED << input, bin, prevPhdrs, alignCalls, out, wi, wlog, outs, bin2, cmp >>
    /\ UNCHANGED << diffVars, fragVars, elfFile, totalFrag, bpfVars >>

NextProcrank ==
    \/ ReadMemInfo
    \/ PopulateProc
    \/ SortProcs
    \/ AddToTotals

SpecProcrank == InitProcrank /\ [][NextProcrank]_vars

(***************************************************************************)
(* The tracepoint programs (bpfMemEvents.c).                               *)
(***************************************************************************)
Progs == { "tp_ams", "tp_lmkd_dr_start", "tp_lmkd_dr_end" }
RingOf(prog) == IF prog = "tp_ams" THEN "ams_rb" ELSE "lmkd_rb"

\* The type each program stores in its record.
TypeOf(prog) ==
    CASE prog = "tp_ams" -> "MEM_EVENT_OOM_KILL"
      [] prog = "tp_lmkd_dr_start" -> "MEM_EVENT_DIRECT_RECLAIM_BEGIN"
      [] prog = "tp_lmkd_dr_end" -> "MEM_EVENT_DIRECT_RECLAIM_END"

\* No record (data == NULL), and an invocation that is not running.
NULL == 0
IdleHandler ==
    [prog |-> "none", event |-> 0, at |-> "idle", data |-> NULL, ret |-> 0,
     submits |-> 0]

\* A faulty program that returns after filling the record in.
FlowNoSubmit(at, data) ==
    CASE at = "reserve" -> IF data = NULL THEN "ret" ELSE "fill"
      [] at = "fill" -> "ret"
      [] at = "submit" -> "ret"

\* The statement a program goes to after the one it is at: it returns after
\* a reserve that gave NULL, else it fills the record in, submits it, returns.
Flow(at, data) ==
    CASE at = "reserve" -> IF data = NULL THEN "ret" ELSE "fill"
      [] at = "fill" -> "submit"
      [] at = "submit" -> "ret"

InitBpf ==
    /\ pc = "bpf"
    /\ handlers = [c \in 1..MaxCpus |-> IdleHandler]
    /\ rings = NoRings
    /\ events = 0
    /\ elfFile = NoStream
    /\ totalFrag = NoFrag
    /\ ProcIdle
    /\ input = << >>
    /\ bin = EmptyBinary
    /\ bin2 = EmptyBinary
    /\ prevPhdrs = << >>
    /\ alignCalls = 0
    /\ out = << >>
    /\ wi = 0
    /\ wlog = {}
    /\ outs = [c \in 0..MaxFileAligns |-> NoFile]
    /\ cmp = NoCmp
    /\ DiffIdle
    /\ FragIdle

\* What the programs and the reader of the ring buffers leave alone.
BpfFrame ==
    /\ pc = "bpf"
    /\ UNCHANGED << input, pc, bin, prevPhdrs, alignCalls, out, wi, wlog, outs, bin2, cmp >>
    /\ UNCHANGED << diffVars, fragVars, elfFile, totalFrag, procVars >>

\* A tracepoint is hit on a cpu whose last program has returned: the
\* program attached to it starts.
Fire(c) ==
    /\ handlers[c].at \in { "idle", "ret" }
    /\ events < MaxEvents
    /\ events' = events + 1
    /\ \E prog \in Progs :
          handlers' = [handlers EXCEPT ![c] = [IdleHandler EXCEPT !.prog = prog,
                                                                  !.event = events + 1,
                                                                  !.at = "reserve"]]
    /\ UNCHANGED rings
    /\ BpfFrame

\* data = bpf_..._rb_reserve(); if (data == NULL) return 1;
Reserve(c) ==
    /\ handlers[c].at = "reserve"
    /\ LET ring == RingOf(handlers[c].prog)
           data == IF Len(rings[ring]) < MaxRing THEN handlers[c].event ELSE NULL
       IN  /\ rings' = IF data = NULL THEN rings
                       ELSE [rings EXCEPT ![ring] =
                                Append(@, [id |-> data, type |-> "unset",
                                           state |-> "reserved"])]
           /\ handlers' = [handlers EXCEPT ![c].data = data,
                                           ![c].at = Flow("reserve", data),
                                           ![c].ret = IF data = NULL THEN 1 ELSE 0]
    /\ UNCHANGED events
    /\ BpfFrame

\* data->type = ...; and, in tp_ams, the fields of the oom kill.
Fill(c) ==
    /\ handlers[c].at = "fill"
    /\ LET ring == RingOf(handlers[c].prog)
       IN  rings' = [rings EXCEPT ![ring] =
                        [k \in 1..Len(@) |->
                            IF @[k].id = handlers[c].data
                            THEN [@[k] EXCEPT !.type = TypeOf(handlers[c].prog)]
                            ELSE @[k]]]
    /\ handlers' = [handlers EXCEPT ![c].at = Flow("fill", handlers[c].data)]
    /\ UNCHANGED events
    /\ BpfFrame

\* bpf_..._rb_submit(data); return 0;
Submit(c) ==
    /\ handlers[c].at = "submit"
    /\ LET ring == RingOf(handlers[c].prog)
       IN  rings' = [rings EXCEPT ![ring] =
                        [k \in 1..Len(@) |->
                            IF @[k].id = handlers[c].data
                            THEN [@[k] EXCEPT !.state = "submitted"]
                            ELSE @[k]]]
    /\ handlers' = [handlers EXCEPT ![c].at = Flow("submit", handlers[c].data),
                                    ![c].submits = @ + 1,
                                    ![c].ret = 0]
    /\ UNCHANGED events
    /\ BpfFrame

\* The reader of a ring buffer takes the oldest record once it is submitted.
Consume(ring) ==
    /\ rings[ring] # << >>
    /\ Head(rings[ring]).state = "submitted"
    /\ rings' = [rings EXCEPT ![ring] = Tail(@)]
    /\ UNCHANGED << handlers, events >>
    /\ BpfFrame

NextBpf ==
    \/ \E c \in 1..MaxCpus : Fire(c)
    \/ \E c \in 1..MaxCpus : Reserve(c)
    \/ \E c \in 1..MaxCpus : Fill(c)
    \/ \E c \in 1..MaxCpus : Submit(c)
    \/ \E ring \in DOMAIN NoRings : Consume(ring)

SpecBpf == InitBpf /\ [][NextBpf]_vars

(***************************************************************************)
(* Properties of the aligner (checked under SpecAlign).                    *)
(***************************************************************************)
\* The least multiple of a that is >= v, as a number (a >= 1).
LeastMultiple(v, a) == ((v + a - 1) \div a) * a

\* The headers of the latest call: index, header before, header after.
AlignedPairs ==
    IF alignCalls = 0 THEN {}
    ELSE { [i |-> i, before |-> prevPhdrs[i], after |-> bin.phdrs[i]] :
              i \in 1..Len(prevPhdrs) }
LoadPairs == { x \in AlignedPairs : x.before.p_type = PT_LOAD }

\* C2 as stated: after AlignProgramHeaders every PT_LOAD header whose p_align
\* is a power of two has p_filesz and p_memsz equal to the least multiple of
\* its p_align that is >= the value the field had before the call.
C2_RoundsToLeastMultiple ==
    \A x \in LoadPairs :
       IsPowerOfTwo(x.before.p_align) =>
          /\ x.after.p_filesz = LeastMultiple(x.before.p_filesz, x.before.p_align)
          /\ x.after.p_memsz = LeastMultiple(x.before.p_memsz, x.before.p_align)

\* C2, amended: the same, for each size field whose least multiple still fits
\* the field (the old value is at most 2^64 - p_align); otherwise the sum
\* wraps around and the field does not hold that multiple.
C2_RoundsToLeastMultipleIfRepresentable ==
    \A x \in LoadPairs :
       IsPowerOfTwo(x.before.p_align) =>
          /\ x.before.p_filesz <= Word - x.before.p_align =>
                x.after.p_filesz = LeastMultiple(x.before.p_filesz, x.before.p_align)
          /\ x.before.p_memsz <= Word - x.before.p_align =>
                x.after.p_memsz = LeastMultiple(x.before.p_memsz, x.before.p_align)

\* The end-to-end scenario: p_memsz 67834 with p_align 65536 became 131072.
C2_Witness ==
    \E x \in LoadPairs :
       /\ x.before.p_memsz = 67834 /\ x.before.p_align = 65536
       /\ x.after.p_memsz = 131072

\* C3 as stated: p_filesz and p_memsz of a PT_LOAD header are never smaller
\* after AlignProgramHeaders than before, for every value of size and alignment.
C3_NeverDecreased ==
    \A x \in LoadPairs :
       /\ x.after.p_filesz >= x.before.p_filesz
       /\ x.after.p_memsz >= x.before.p_memsz

\* size + align - 1 is computed without wrapping around.
NoWrap(size, align) == align >= 1 /\ size + align - 1 < Word

\* C3, amended: a size field of a PT_LOAD header is never smaller after the
\* call than before, whenever p_align >= 1 and size + p_align - 1 does not
\* exceed 2^64 - 1 (whether or not p_align is a power of two).
C3_NeverDecreasedIfNoWrap ==
    \A x \in LoadPairs :
       /\ NoWrap(x.before.p_filesz, x.before.p_align) =>
             x.after.p_filesz >= x.before.p_filesz
       /\ NoWrap(x.before.p_memsz, x.before.p_align) =>
             x.after.p_memsz >= x.before.p_memsz

\* A size was rounded up under an alignment that is no power of two, and
\* another under a page size.
C3_Witness ==
    /\ \E x \in LoadPairs :
          /\ x.before.p_align = 6 /\ x.before.p_filesz = 9
          /\ x.after.p_filesz > 9
    /\ \E x \in LoadPairs :
          /\ x.before.p_align = 4096 /\ x.before.p_filesz = 9
          /\ x.after.p_filesz = 4096

\* C4 as stated: AlignProgramHeaders leaves every field of every program
\* header whose p_type is not PT_LOAD unchanged.
C4_NonLoadUnchanged ==
    \A x \in AlignedPairs :
       x.before.p_type # PT_LOAD => x.after = x.before

\* C5: AlignProgramHeaders changes neither p_type, p_flags, p_offset, p_vaddr,
\* p_paddr nor p_align of any header, nor the number or order of the headers;
\* a PT_LOAD header whose p_offset and p_vaddr were congruent modulo p_align
\* before the call is congruent after it.
C5_FrameAndCongruence ==
    alignCalls > 0 =>
       /\ Len(bin.phdrs) = Len(prevPhdrs)
       /\ \A x \in AlignedPairs :
             /\ \A f \in { "p_type", "p_flags", "p_offset", "p_vaddr", "p_paddr",
                           "p_align" } : x.after[f] = x.before[f]
             /\ ( /\ x.before.p_type = PT_LOAD
                  /\ x.before.p_align > 0
                  /\ x.before.p_offset % x.before.p_align
                        = x.before.p_vaddr % x.before.p_align )
                => x.after.p_offset % x.after.p_align
                      = x.after.p_vaddr % x.after.p_align

\* A congruent PT_LOAD header whose sizes the call changed, next to a second header.
C5_Witness ==
    /\ Len(bin.phdrs) = 2
    /\ \E x \in LoadPairs :
          /\ x.before.p_align = 65536
          /\ x.before.p_offset % 65536 = x.before.p_vaddr % 65536
          /\ x.after.p_filesz # x.before.p_filesz

\* C6: a second AlignProgramHeaders in succession leaves p_filesz and p_memsz
\* of every program header as the first call made them.
C6_Idempotent ==
    alignCalls >= 2 =>
       \A x \in AlignedPairs :
          /\ x.after.p_filesz = x.before.p_filesz
          /\ x.after.p_memsz = x.before.p_memsz

\* After two calls, a header whose p_memsz the first call rounded to 131072.
C6_Witness ==
    /\ alignCalls = 2
    /\ \E x \in AlignedPairs :
          x.after.p_memsz = 131072 /\ x.after.p_filesz = 65536

(***************************************************************************)
(* Properties of the writer (checked under Spec).                          *)
(***************************************************************************)
\* C1 as stated: writing the unmodified model of a parsed file produces a
\* file that is byte-identical to the input.
C1_RoundTripIdentity ==
    outs[0].written => outs[0].bytes = input

\* C7 as stated: when the first section header is written, the number of
\* bytes written before it equals ehdr.e_shoff.
C7_TableAtShoff ==
    (pc = "shdrs" /\ wi = 0) => Len(out) = bin.ehdr.e_shoff

\* The section headers of a completed output file, read from the end of it.
WrittenShdr(bytes, i) ==
    DecodeShdr(Bytes(bytes, Len(bytes) - (Len(bin.shdrs) - i + 1) * SizeofShdr,
                     SizeofShdr))

\* C8 as stated: no content is written for a SHT_NOBITS section at whatever
\* index, the last included, and the section header written for it carries
\* sh_size unchanged.
C8_NobitsNotWritten ==
    /\ \A w \in wlog : bin.shdrs[w.sec + 1].sh_type # SHT_NOBITS
    /\ \A c \in DOMAIN outs :
          outs[c].written =>
             \A i \in 1..Len(bin.shdrs) :
                bin.shdrs[i].sh_type = SHT_NOBITS =>
                   WrittenShdr(outs[c].bytes, i).sh_size = bin.shdrs[i].sh_size

\* The bytes of a written file that hold the program header table.
InPhdrTable(k) ==
    k > SizeofEhdr /\ k <= SizeofEhdr + SizeofPhdr * Len(bin.phdrs)

\* C9: the file written after AlignProgramHeaders alone has the length of the
\* file written from the unmodified model and differs from it only inside
\* the program header table.
C9_OnlyPhdrTableDiffers ==
    \A c \in DOMAIN outs :
       (outs[0].written /\ outs[c].written) =>
          /\ Len(outs[c].bytes) = Len(outs[0].bytes)
          /\ \A k \in 1..Len(outs[0].bytes) :
                ~InPhdrTable(k) => outs[c].bytes[k] = outs[0].bytes[k]

\* Both files are written, they differ, and they hold two program headers,
\* section content and padding.
C9_Witness ==
    /\ outs[0].written /\ outs[1].written
    /\ outs[0].bytes # outs[1].bytes
    /\ Len(bin.phdrs) = 2
    /\ \E i \in 2..Len(bin.shdrs) :
          /\ bin.sections[i].size > 0 /\ ~bin.sections[i].null
          /\ i < Len(bin.shdrs)
          /\ bin.shdrs[i + 1].sh_offset > bin.shdrs[i].sh_offset + bin.shdrs[i].sh_size

(***************************************************************************)
(* Properties of the comparator (checked under SpecCmp).                   *)
(***************************************************************************)
\* C10: when the copy differs from the original in exactly one field of
\* exactly one program header, ArePhdrsEqual returns false and reports that
\* field at that index and nothing else.
C10_ReportsTheOneField ==
    (pc = "compared" /\ Cardinality(DifferingFields(bin.phdrs, bin2.phdrs)) = 1) =>
       /\ cmp.equal = FALSE
       /\ \E x \in DifferingFields(bin.phdrs, bin2.phdrs) :
             cmp.report = << [index |-> x[1] - 1, field |-> x[2]] >>

\* The comparison of a copy that differs in p_align of the second header only.
C10_Witness ==
    /\ pc = "compared"
    /\ DifferingFields(bin.phdrs, bin2.phdrs) = { << 2, "p_align" >> }
    /\ cmp.report = << [index |-> 1, field |-> "p_align"] >>

(***************************************************************************)
(* Properties of the comparator in elftool (checked under SpecDiff).       *)
(***************************************************************************)
\* The comparisons made so far, and the result of one of them.
Made == { diff[k].check : k \in 1..Len(diff) } \ { "PrintAll" }
ResultOf(check) == diff[CHOOSE k \in 1..Len(diff) : diff[k].check = check]
Indices(report) == { report[k].index : k \in 1..Len(report) }

\* C11: each of AreEhdrsEqual, ArePhdrsEqual and AreShdrsEqual returns the
\* conjunction of its field checks.  AreEhdrsEqual is true exactly when the
\* two headers agree in all identification bytes and all other fields.  The
\* vector checks are false when the lengths differ, and then nothing but the
\* different count is reported; otherwise they are true exactly when every
\* header agrees with the header at its index in every field.
C11_ConjunctionOfFieldChecks ==
    /\ "ehdrs" \in Made =>
          (ResultOf("ehdrs").equal <=> bin.ehdr = bin2.ehdr)
    /\ \A v \in { "phdrs", "shdrs" } \cap Made :
          LET v1 == bin[v]
              v2 == bin2[v]
          IN  IF Len(v1) # Len(v2)
              THEN /\ ResultOf(v).equal = FALSE
                   /\ Indices(ResultOf(v).report) = { -1 }
              ELSE ResultOf(v).equal <=> \A i \in 1..Len(v1) : v1[i] = v2[i]

\* The section headers differ in sh_entsize of section 1 and in nothing else,
\* the program headers do not differ, and all comparisons are made.
C11_Witness ==
    /\ pc = "done"
    /\ Len(bin.shdrs) = Len(bin2.shdrs)
    /\ Len(bin.shdrs) > 1
    /\ bin2.shdrs = [bin.shdrs EXCEPT ![2].sh_entsize = 1]
    /\ bin.shdrs[2].sh_entsize # 1
    /\ ResultOf("shdrs").equal = FALSE
    /\ ResultOf("phdrs").equal = TRUE

\* Whether the claim takes the pair of sections a, b to be different.
SectionsDiffer(a, b) ==
    \/ a.size # b.size
    \/ a.null # b.null
    \/ ~a.null /\ ~b.null /\ SubSeq(a.data, 1, a.size) # SubSeq(b.data, 1, a.size)

\* C12: no comparison returns false without a diagnostic, and AreSdEqual
\* names every pair of sections it takes to be different.
C12_EveryMismatchReported ==
    /\ \A c \in Made : ~ResultOf(c).equal => ResultOf(c).report # << >>
    /\ ("sd" \in Made /\ Len(bin.sections) = Len(bin2.sections)) =>
          \A i \in 1..Len(bin.sections) :
             SectionsDiffer(bin.sections[i], bin2.sections[i]) =>
                (i - 1) \in Indices(ResultOf("sd").report)

\* C13: AreSdEqual returns true exactly when the section counts match and no
\* pair at one index is different: different sizes, or exactly one buffer
\* absent, or two buffers whose first `size` bytes differ; for a pair of
\* different sizes the content is not compared.
C13_SectionDataDecision ==
    "sd" \in Made =>
       /\ ResultOf("sd").equal <=>
             /\ Len(bin.sections) = Len(bin2.sections)
             /\ \A i \in 1..Len(bin.sections) :
                   ~SectionsDiffer(bin.sections[i], bin2.sections[i])
       /\ Len(bin.sections) = Len(bin2.sections) =>
             \A i \in 1..Len(bin.sections) :
                bin.sections[i].size # bin2.sections[i].size =>
                   [index |-> i - 1, field |-> "data"]
                      \notin { ResultOf("sd").report[k] :
                                  k \in 1..Len(ResultOf("sd").report) }

\* Section 1 has its buffer in the first file and none in the second, with
\* the same size, and AreSdEqual has returned false.
C13_Witness ==
    /\ pc = "done"
    /\ Len(bin.sections) = Len(bin2.sections)
    /\ Len(bin.sections) > 1
    /\ bin.sections[2].size = bin2.sections[2].size
    /\ ~bin.sections[2].null
    /\ bin2.sections[2].null
    /\ ResultOf("sd").equal = FALSE

\* C14: when the second file has the bytes of the first, or the two models
\* are the same, each of the four comparisons returns true.
C14_Reflexive ==
    (input = input2 \/ (pc # "elftool" /\ pc # "parsed1" /\ bin = bin2)) =>
       \A c \in Made : ResultOf(c).equal

\* All four comparisons are made on two files of the same bytes that hold a
\* SHT_NOBITS section.
C14_Witness ==
    /\ pc = "done"
    /\ input = input2
    /\ \E i \in 1..Len(bin.shdrs) : bin.shdrs[i].sh_type = SHT_NOBITS
    /\ Made = { "ehdrs", "phdrs", "shdrs", "sd" }
    /\ \A c \in Made : ResultOf(c).equal

(***************************************************************************)
(* Properties of the fragmentation analyzer (checked under SpecFrag).      *)
(***************************************************************************)
PageSizes == { PS_4K, PS_16K, PS_64K }
PagesAt(segStats, P) ==
    CASE P = PS_4K -> segStats.num4kPages
      [] P = PS_16K -> segStats.num16kPages
      [] P = PS_64K -> segStats.num64kPages
FragAt(segStats, P) ==
    CASE P = PS_4K -> segStats.frag4kInBytes
      [] P = PS_16K -> segStats.frag16kInBytes
      [] P = PS_64K -> segStats.frag64kInBytes

\* C15: the stats of every PT_LOAD segment hold, for each page size P, the
\* least number of pages of P bytes that hold p_memsz bytes, and
\* P - (p_memsz mod P) as fragmentation, which lies in 1..P and is P when
\* p_memsz is a multiple of P; 67834 bytes take 5 pages of 16384 bytes.
C15_PagesAndFragmentation ==
    \A k \in 1..Len(printed), P \in PageSizes :
       LET m == printed[k].memSize
           pages == PagesAt(printed[k], P)
           frag == FragAt(printed[k], P)
       IN  /\ pages * P >= m
           /\ pages = 0 \/ (pages - 1) * P < m
           /\ frag = P - (m % P)
           /\ frag \in 1..P
           /\ m % P = 0 => frag = P
           /\ (m = 67834 /\ P = PS_16K) => pages = 5

\* A segment of 67834 bytes has been analyzed: 5 pages of 16384 bytes.
C15_Witness ==
    \E k \in 1..Len(printed) :
       /\ printed[k].memSize = 67834
       /\ printed[k].num16kPages = 5
       /\ printed[k].frag16kInBytes = PS_16K - (67834 % PS_16K)

\* C16: each counter, summed over the three totals, is the sum of that
\* counter over all PT_LOAD segments processed (in unsigned arithmetic).
C16_EverySegmentInOneTotal ==
    \A f \in DOMAIN ZeroStats :
       Add(Add(totals.exec[f], totals.readOnly[f]), totals.readWrite[f]) = loadStats[f]

\* C17: the page count of a segment at a larger page size is at most its page
\* count at a smaller one.
C17_PageCountMonotone ==
    \A k \in 1..Len(printed) :
       /\ printed[k].num64kPages <= printed[k].num16kPages
       /\ printed[k].num16kPages <= printed[k].num4kPages

\* A segment of 67834 bytes: 17, 5 and 2 pages.
C17_Witness ==
    \E k \in 1..Len(printed) :
       /\ printed[k].memSize = 67834
       /\ printed[k].num4kPages = 17
       /\ printed[k].num16kPages = 5
       /\ printed[k].num64kPages = 2

\* Whether the bytes of a file show a 64-bit object.
ShowsElf64(f) == Len(f) >= SizeofEhdr /\ f[EI_CLASS + 1] = ELFCLASS64

\* C18: the walk does not end at an entry that cannot be classified as a
\* 64-bit ELF file: the process never ends with a fatal error at such a file.
C18_UnclassifiableEntrySkipped ==
    pc = "fatal" => ShowsElf64(tree.files[cur.file])

\* C19: the totals and processedFiles change, and a full parse is made, only
\* for a file whose header-only parse has been made and shows ELFCLASS64;
\* processedFiles then goes up by one; it counts the files parsed in full.
C19_HeaderParseThenFullParse ==
    /\ [](processedFiles = Len(analyzed))
    /\ [][/\ (\/ processedFiles' # processedFiles
              \/ totals' # totals
              \/ analyzed' # analyzed
              \/ pc = "header" /\ pc' = "fatal")
             => /\ pc = "header"
                /\ bin = ParseExecutableHeader(tree.files[cur.file])
                /\ tree.files[cur.file][EI_CLASS + 1] = ELFCLASS64
          /\ (processedFiles' # processedFiles \/ analyzed' # analyzed)
             => /\ processedFiles' = processedFiles + 1
                /\ analyzed' = Append(analyzed, cur)
                /\ bin' = ParseElfFile(tree.files[cur.file])]_vars

\* The walk is over a tree with a 64-bit and a 32-bit shared library: one
\* file is processed, the 64-bit one.
C19_Witness ==
    /\ pc = "done"
    /\ Len(tree.files) = 3
    /\ tree.files[1] = StdFile
    /\ tree.files[2] = File32
    /\ processedFiles = 1
    /\ analyzed[1].file = 1

\* The directories under the root that are reached without a symbolic link,
\* with their paths, and the 64-bit shared libraries in them that are regular
\* files and no symbolic links.
AllEntries == UNION { tree.dirs[i] : i \in 1..Len(tree.dirs) }
RECURSIVE RealDirs(_)
RealDirs(n) ==
    IF n = 0 THEN { [path |-> RootPath, dir |-> 1] }
    ELSE LET above == RealDirs(n - 1)
         IN  above
             \cup { [path |-> PathOf(x[1].path, x[2].name), dir |-> x[2].node] :
                       x \in { y \in above \X AllEntries :
                                  /\ y[2] \in tree.dirs[y[1].dir]
                                  /\ y[2].kind = "dir"
                                  /\ ~y[2].symlink } }
SharedLibraries ==
    { x[2].node :
         x \in { y \in RealDirs(Len(tree.dirs)) \X AllEntries :
                    /\ y[2] \in tree.dirs[y[1].dir]
                    /\ EndsWith(PathOf(y[1].path, y[2].name), DotSo)
                    /\ ~y[2].symlink
                    /\ y[2].kind = "file"
                    /\ ~ParseError(tree.files[y[2].node]) } }

\* C20: when the walk is over, every 64-bit shared library under the root
\* that is a regular file and no symbolic link has been analyzed exactly
\* once, and nothing reached as a symbolic link has been analyzed.
C20_EveryLibraryOnce ==
    pc = "done" =>
       /\ \A x \in SharedLibraries :
             Cardinality({ k \in 1..Len(analyzed) : analyzed[k].file = x }) = 1
       /\ \A k \in 1..Len(analyzed) : ~analyzed[k].symlink

\* ------------------------------------------------------------------------
\* The diff tool as a whole (SpecDiff).

\* What main prints after both files are parsed, in order.
DiffOrder == << "PrintAll", "ehdrs", "phdrs", "shdrs", "sd" >>
DiffStep(p) ==
    CASE p = "parsed2" -> 0 [] p = "ehdrs" -> 1 [] p = "phdrs" -> 2
      [] p = "shdrs" -> 3 [] p = "sd" -> 4 [] p = "done" -> 5

\* C21: once both files have parsed, the tool prints the dump of the second
\* file, then the four verdicts in the order ehdr, phdrs, shdrs, section
\* content, and returns 0 whatever the verdicts are; it stops nowhere else.
C21_DumpThenFourVerdicts ==
    pc \notin { "elftool", "parsed1", "fatal" } =>
        /\ pc \in { "parsed2", "ehdrs", "phdrs", "shdrs", "sd", "done" }
        /\ Len(diff) = DiffStep(pc)
        /\ \A k \in 1..Len(diff) : diff[k].check = DiffOrder[k]

\* ------------------------------------------------------------------------
\* The writer's output stream (Spec).

C23_HandleClosedOnEveryExit ==
    pc \in { "parsed", "exit" } => ~elfFile.open

\* C24: whenever the writer starts on the content of section i (i >= 1,
\* not SHT_NOBITS), the bytes written so far are shdrs[i].sh_offset.  The
\* files parsed all have their sections in ascending order without overlap
\* after the program header table.
C24_WriterPosition ==
    \A w \in wlog :
        (w.sec >= 1 /\ bin.shdrs[w.sec + 1].sh_type # SHT_NOBITS)
            => w.at = bin.shdrs[w.sec + 1].sh_offset

\* The i-th program header of a file the writer wrote (i from 1).
WrittenPhdr(bytes, i) ==
    DecodePhdr(Bytes(bytes, SizeofEhdr + (i - 1) * SizeofPhdr, SizeofPhdr))

\* C25: in the file written after AlignProgramHeaders, the file range of
\* every PT_LOAD program header lies inside the file: p_offset + p_filesz is
\* at most the length of the file.
C25_LoadRangeInsideFile ==
    (alignCalls >= 1 /\ outs[alignCalls].written) =>
        LET bytes == outs[alignCalls].bytes
        IN  \A i \in 1..Len(bin.phdrs) :
               LET p == WrittenPhdr(bytes, i)
               IN  p.p_type = PT_LOAD => p.p_offset + p.p_filesz <= Len(bytes)

\* C26: WriteSections and WriteLastSection read shdrs[k] and sections[k]
\* only for k below the size of the vector, and hand no absent buffer with a
\* size above zero to a write, whatever the number of sections (none and
\* one included).
C26_ReadsInRangeNoAbsentBuffer ==
    /\ pc = "sections" =>
          /\ wi + 1 < Len(bin.shdrs)
          /\ wi < Len(bin.sections)
    /\ \A w \in wlog : ~(w.null /\ w.size > 0)

\* ------------------------------------------------------------------------
\* The two analyzers (SpecFrag).

\* C27: the two analyzers agree.  Over the same files, each total of the
\* totals-only analyzer is the sum, over the three totals of the per-class
\* analyzer, of the fragmentation at that page size.
C27_VariantsAgree ==
    /\ totalFrag.frag4k = Add(Add(totals.exec.frag4kInBytes,
           totals.readOnly.frag4kInBytes), totals.readWrite.frag4kInBytes)
    /\ totalFrag.frag16k = Add(Add(totals.exec.frag16kInBytes,
           totals.readOnly.frag16kInBytes), totals.readWrite.frag16kInBytes)
    /\ totalFrag.frag64k = Add(Add(totals.exec.frag64kInBytes,
           totals.readOnly.frag64kInBytes), totals.readWrite.frag64kInBytes)

\* C28: the walk terminates on every finite tree, links to directories and
\* a link to an ancestor included: ProcessDir is never active twice on one
\* directory, so every call returns, and the walk ends in the summary and
\* not in an exception.
C28_WalkTerminates ==
    /\ pc # "abort"
    /\ \A i, j \in 1..Len(stack) : stack[i].dir = stack[j].dir => i = j

\* ------------------------------------------------------------------------
\* procrank (SpecProcrank).

\* How often the offset off occurs among the swap offsets of the records.
RECURSIVE Occurrences(_, _)
Occurrences(recs, off) ==
    IF recs = << >> THEN 0
    ELSE Cardinality({ k \in 1..Len(Head(recs).swap_offsets_) :
                          Head(recs).swap_offsets_[k] = off })
         + Occurrences(Tail(recs), off)

\* C29: every read of swap_offset_array that CalculateSwap makes is inside
\* the array and finds an entry of at least 1.  When CalculateSwap is going to
\* be called on the records kept, every offset of every record is inside the
\* array and was counted by count_swap_offsets: the entry of an offset is the
\* number of times the records have it.
C29_SwapReadsCounted ==
    /\ \A r \in swapReads : r.off < r.size /\ r.entry >= 1
    /\ pc # "sigfpe"
    /\ (pc \in { "populate", "totals" } /\ ~params.show_wss /\ params.swap_enabled) =>
          \A off \in SwapOffsets :
             IF off < Len(swap_offset_array)
             THEN swap_offset_array[off + 1] = Occurrences(procs, off)
             ELSE Occurrences(procs, off) = 0

\* CalculateSwap has divided by the entry of an offset that two records
\* share, and run_procrank has returned true.
C29_Witness ==
    /\ pc = "true"
    /\ Len(procs) = 2
    /\ \E r \in swapReads : r.entry = 2
    /\ params.total_pswap > 0

\* ------------------------------------------------------------------------
\* The tracepoint programs (SpecBpf).

AllRecords ==
    UNION { { rings[ring][k] : k \in 1..Len(rings[ring]) } : ring \in DOMAIN NoRings }
RecordOf(c) == { rec \in AllRecords : rec.id = handlers[c].data }

\* C30: in each program, a reserve that fails is followed by return 1 and
\* no submit; a reserve that succeeds is followed by exactly one submit of
\* the record reserved, with its type set before, and return 0.  No record is
\* left reserved by a program that has returned, and none is submitted twice.
C30_ReserveThenOneSubmit ==
    /\ \A c \in 1..MaxCpus :
          LET h == handlers[c]
          IN  /\ h.submits <= 1
              /\ (h.at = "ret" /\ h.data = NULL) => (h.ret = 1 /\ h.submits = 0)
              /\ (h.at = "ret" /\ h.data # NULL) => (h.ret = 0 /\ h.submits = 1)
              /\ h.at \in { "fill", "submit" } =>
                    \E rec \in RecordOf(c) : rec.state = "reserved"
              /\ h.at \in { "idle", "reserve", "ret" } =>
                    \A rec \in RecordOf(c) : rec.state = "submitted"
    /\ \A rec \in AllRecords :
          /\ rec.state = "submitted" =>
                rec.type \in { "MEM_EVENT_OOM_KILL", "MEM_EVENT_DIRECT_RECLAIM_BEGIN",
                               "MEM_EVENT_DIRECT_RECLAIM_END" }
          /\ rec.state = "reserved" =>
                \E c \in 1..MaxCpus :
                   handlers[c].data = rec.id /\ handlers[c].at \in { "fill", "submit" }
    /\ \A ring \in DOMAIN NoRings : \A k \in 1..Len(rings[ring]) :
          LET rec == rings[ring][k]
          IN  rec.state = "submitted" =>
                 IF ring = "ams_rb" THEN rec.type = "MEM_EVENT_OOM_KILL"
                 ELSE rec.type # "MEM_EVENT_OOM_KILL"

\* One program has returned 1 from a full ring buffer while another has
\* returned 0 with its record submitted.
C30_Witness ==
    \E c, d \in 1..MaxCpus :
       /\ handlers[c].at = "ret" /\ handlers[c].ret = 1 /\ handlers[c].data = NULL
       /\ handlers[d].at = "ret" /\ handlers[d].ret = 0 /\ handlers[d].submits = 1
       /\ \E rec \in RecordOf(d) :
             rec.state = "submitted" /\ rec.type = TypeOf(handlers[d].prog)


====
